---- MODULE Spec2Model ----
(***************************************************************************)
(* Model of the evidence-softmax probability engine, the refresh pipeline  *)
(* (public refresh, cron refresh, pipeline route, push ingest, score and   *)
(* update routes) and the filtered-stream ingestion worker (rule sync and  *)
(* reconnect loop) of x-sentiments/sentiment-tracker-viz.                  *)
(*                                                                         *)
(* Numbers.  The engine works on IEEE doubles.  Here every real number is  *)
(* a fixed-point integer counted in millionths (ONE = 10^6 stands for      *)
(* 1.0); products and quotients are rounded to that grid  .  The guard     *)
(* EPS = 1e-12 is one millionth of a grid unit: it is kept exactly, as a   *)
(* separate limb, in the denominators it is added to, and the engine's     *)
(* returned probabilities are kept as the exact fractions                  *)
(* num[i] / (den + EPS) so that statements about their sum and about the   *)
(* floor are decided without rounding.                                     *)
(***************************************************************************)
EXTENDS Integers, Sequences, FiniteSets, TLC

\* ------------------------------------------------------------------------
\* Fixed-point arithmetic (1.0 = ONE grid units, all intermediate values
\* stay below 2^31)
\* ------------------------------------------------------------------------

ONE == 1000000

Abs(x) == IF x < 0 THEN -x ELSE x

Sgn(x) == IF x < 0 THEN -1 ELSE IF x > 0 THEN 1 ELSE 0

MaxOf(a, b) == IF a >= b THEN a ELSE b

MinOf(a, b) == IF a <= b THEN a ELSE b

\* The integer quotient a / n for a >= 0, n > 0, rounded to the nearest.
RDiv(a, n) == (a + n \div 2) \div n

\* |a| * |b| / ONE for a, b >= 0, rounded to the nearest grid unit; the
\* product is assembled from base-1000 digits so that no intermediate value
\* leaves 32 bits.
MulAbs[a \in Int, b \in Int] ==
  LET a1 == a \div 1000
      a0 == a % 1000
      b1 == b \div 1000
      b0 == b % 1000
      mid == a1 * b0 + a0 * b1
      frac == (mid % 1000) * 1000 + a0 * b0
  IN  a1 * b1 + (mid \div 1000) + ((frac + 500000) \div ONE)

\* Fixed-point product a * b.
Mul[a \in Int, b \in Int] == Sgn(a) * Sgn(b) * MulAbs[Abs(a), Abs(b)]

\* Long division of a * ONE by b for a >= 0, 0 < b < 2 * 10^7, two decimal
\* digits of the quotient at a time: the quotient and the remainder.
LongDiv[a \in Int, b \in Int] ==
  LET q0 == a \div b
      r0 == a % b
      q1 == (r0 * 100) \div b
      r1 == (r0 * 100) % b
      q2 == (r1 * 100) \div b
      r2 == (r1 * 100) % b
      q3 == (r2 * 100) \div b
      r3 == (r2 * 100) % b
  IN  [q |-> q0 * ONE + q1 * 10000 + q2 * 100 + q3, r |-> r3]

\* a / b for a >= 0, b > 0, rounded to the nearest grid unit.
DivAbs[a \in Int, b \in Int] ==
  LET d == LongDiv[a, b]
  IN  IF 2 * d.r >= b THEN d.q + 1 ELSE d.q

\* Fixed-point quotient a / b, b # 0.
Div[a \in Int, b \in Int] == Sgn(a) * Sgn(b) * DivAbs[Abs(a), Abs(b)]

\* a / (b + EPS) for a >= 0, b > 0, rounded to the nearest grid unit, EPS
\* being 10^-6 of a grid unit: with a * ONE = q * b + r the exact quotient is
\* q + (r - q * EPS) / (b + EPS), which rounds up iff
\* (2r - b) * 10^6 >= 2q + 1.
DivEps[a \in Int, b \in Int] ==
  LET d == LongDiv[a, b]
      e == 2 * d.r - b
  IN  IF e >= 2000 \/ (e >= 1 /\ e * ONE >= 2 * d.q + 1) THEN d.q + 1 ELSE d.q

\* ------------------------------------------------------------------------
\* Math.exp, Math.log, Math.log1p, Math.sqrt, Math.tanh, Math.pow on the grid
\* ------------------------------------------------------------------------

\* ln 2 in units of 10^-8, and on the grid.
LN2_E8 == 69314718

LN2 == 693147

Pow2[k \in Int] == IF k = 0 THEN 1 ELSE 2 * Pow2[k - 1]

\* Horner evaluation of the Taylor series of exp(-r), terms n down to 1:
\* 1 - r/1 * (1 - r/2 * (1 - r/3 * ...)).
ExpHorner[r \in Int, n \in Int, t \in Int] ==
  IF n = 0 THEN t
  ELSE ExpHorner[r, n - 1, ONE - RDiv(Mul[r, t], n)]

\* exp(-x) for x >= 0: exp(-x) = 2^-k * exp(-r) with x = k ln 2 + r.
ExpNeg[x \in Int] ==
  LET k == (x * 100) \div LN2_E8
      kk == IF x >= 21000000 THEN 31 ELSE k
      r == IF kk > 30 THEN 0 ELSE x - RDiv(kk * LN2_E8, 100)
      rr == IF r < 0 THEN 0 ELSE r
      t == ExpHorner[rr, 12, ONE]
  IN  IF kk > 30 THEN 0 ELSE RDiv(t, Pow2[kk])

\* The series 2 * (z + z^3/3 + z^5/5 + ... ) of ln((1+z)/(1-z)), odd powers
\* up to z^13, for 0 <= z < 1/3.
LnSeries[z \in Int] ==
  LET z2 == Mul[z, z]
      z3 == Mul[z, z2]
      z5 == Mul[z3, z2]
      z7 == Mul[z5, z2]
      z9 == Mul[z7, z2]
      z11 == Mul[z9, z2]
      z13 == Mul[z11, z2]
  IN  2 * z + RDiv(2 * z3, 3) + RDiv(2 * z5, 5) + RDiv(2 * z7, 7)
            + RDiv(2 * z9, 9) + RDiv(2 * z11, 11) + RDiv(2 * z13, 13)

\* ln(m) for ONE <= m < 2 * ONE.
LnMantissa[m \in Int] == LnSeries[DivAbs[m - ONE, m + ONE]]

\* The number of doublings that bring 0 < x < ONE into [ONE, 2 ONE).
Doublings[x \in Int] == IF x >= ONE THEN 0 ELSE 1 + Doublings[2 * x]

\* The number of halvings that bring the integer n >= 1 into [1, 2).
Halvings[n \in Int] == IF n < 2 THEN 0 ELSE 1 + Halvings[n \div 2]

\* Math.log(x) for a grid value x > 0.
Ln[x \in Int] ==
  IF x < ONE
  THEN LET k == Doublings[x]
       IN  LnMantissa[x * Pow2[k]] - RDiv(k * LN2_E8, 100)
  ELSE LET k == Halvings[x \div ONE]
       IN  LnMantissa[RDiv(x, Pow2[k])]
             + RDiv(k * LN2_E8, 100)

\* Math.log(n) for an integer count n >= 1 (not a grid value).
LnInt[n \in Int] ==
  LET k == Halvings[n]
  IN  LnMantissa[DivAbs[n, Pow2[k]]] + RDiv(k * LN2_E8, 100)

\* Math.log(1e-12), the logarithm of the guard EPS alone.
LN_EPS == -27631021

\* Newton iteration s -> (s + x/s) / 2 from above, until it stops falling.
SqrtNewton[x \in Int, s \in Int] ==
  LET t == (s + DivAbs[x, s]) \div 2
  IN  IF t >= s THEN s ELSE SqrtNewton[x, t]

\* Math.sqrt(x) for a grid value 0 <= x <= 225 * ONE.
Sqrt[x \in Int] ==
  IF x = 0 THEN 0 ELSE SqrtNewton[x, MinOf(ONE + x \div 2, 15 * ONE)]

\* Math.tanh(y) = sign(y) * (1 - exp(-2|y|)) / (1 + exp(-2|y|)).
Tanh[y \in Int] ==
  LET e == ExpNeg[2 * Abs(y)]
  IN  Sgn(y) * DivAbs[ONE - e, ONE + e]

\* Math.pow(x, g) for a grid value 0 <= x <= ONE and an exponent g > 0:
\* exp(g * ln x), and 0 for x = 0.
Pow[x \in Int, g \in Int] == IF x = 0 THEN 0 ELSE ExpNeg[Mul[g, -Ln[x]]]

\* 1 / (1 + exp(-x)); for x < 0 the same value written exp(x) / (1 + exp(x)).
sigmoid[x \in Int] ==
  IF x >= 0 THEN DivAbs[ONE, ONE + ExpNeg[x]]
  ELSE LET e == ExpNeg[-x] IN DivAbs[e, ONE + e]

\* Math.max(lo, Math.min(hi, x)).
clamp(x, lo, hi) == MaxOf(lo, MinOf(hi, x))

RECURSIVE SeqSum(_)
SeqSum(s) == IF s = <<>> THEN 0 ELSE Head(s) + SeqSum(Tail(s))

RECURSIVE SeqMax(_)
SeqMax(s) ==
  IF Len(s) = 1 THEN s[1] ELSE MaxOf(Head(s), SeqMax(Tail(s)))

\* ------------------------------------------------------------------------
\* Engine constants (grid values unless a unit is named)
\* ------------------------------------------------------------------------

\* An absent optional number (undefined or null).
Null == -999999999

GRACE_SEC == 300

HALF_LIFE_SEC == 21600

MAX_AGE_SEC == 259200

DAY_SEC == 86400

GAMMA == 1150000

STANCE_K == 1600000

W_MIN == 18000

MU_F == 8000000

SIG_F == 1500000

MU_E == 2000000

SIG_E == 1500000

T0 == 1000000

ALPHA == 600000

TAU == 650000

\* The lower clamp 1e-6 of priors and previous probabilities.
PROB_MIN == 1

\* ------------------------------------------------------------------------
\* Engine helpers
\* ------------------------------------------------------------------------

\* exps / (sum of exps + EPS) of the logits less their maximum.
softmaxStable(logits) ==
  LET m == SeqMax(logits)
      exps == [i \in 1..Len(logits) |-> ExpNeg[m - logits[i]]]
      sm == SeqSum(exps)
  IN  [i \in 1..Len(logits) |-> DivEps[exps[i], sm]]

\* The floored vector and its sum: entry i of the result of renormFloor is
\* the exact fraction num[i] / (den + EPS).
renormFloorNoRenorm(probs, floor) ==
  [num |-> [i \in 1..Len(probs) |-> MaxOf(probs[i], floor)], den |-> ONE]

renormFloor(probs, floor) ==
  LET floored == [i \in 1..Len(probs) |-> MaxOf(probs[i], floor)]
  IN  [num |-> floored, den |-> SeqSum(floored)]

\* Math.log(p + EPS): EPS is below the grid unless p is 0 on the grid.
LnEps(p) == IF p = 0 THEN LN_EPS ELSE Ln[p]

centeredLogitsFromProbs(probs) ==
  LET logs == [i \in 1..Len(probs) |-> LnEps(probs[i])]
      total == SeqSum(logs)
      mean == Sgn(total) * RDiv(Abs(total), Len(probs))
  IN  [i \in 1..Len(probs) |-> logs[i] - mean]

timeDecay(ageSec) ==
  IF ageSec <= GRACE_SEC THEN ONE
  ELSE ExpNeg[Mul[LN2, DivAbs[ageSec - GRACE_SEC, HALF_LIFE_SEC]]]

\* x ?? 0 for an optional number.  An absent initial_metrics or features
\* object is the record whose fields are all Null (post.features?.x ?? 0),
\* and author_verified is the boolean !!post.author_verified.
OrZero(x) == IF x = Null THEN 0 ELSE x

computeMetricWeight(post) ==
  LET followers == MaxOf(0, OrZero(post.author_followers))
      verified == post.author_verified
      likes == OrZero(post.initial_metrics.likes)
      reposts == OrZero(post.initial_metrics.reposts)
      replies == OrZero(post.initial_metrics.replies)
      quotes == OrZero(post.initial_metrics.quotes)
      \* twice the engagement sum likes + 2 reposts + 1.5 replies + 2.5 quotes
      twice == 2 * likes + 4 * reposts + 3 * replies + 5 * quotes
      E == LnInt[2 + twice] - LN2
      f == sigmoid[Div[LnInt[1 + followers] - MU_F, SIG_F]]
      e == sigmoid[Div[E - MU_E, SIG_E]]
  IN  Mul[Mul[750000 + Mul[250000, f], 850000 + Mul[150000, e]],
          IF verified THEN 1200000 ELSE ONE]

authorDilution(authorPostCount) ==
  MaxOf(350000,
        DivAbs[ONE, Sqrt[ONE + 750000 * MaxOf(0, authorPostCount - 1)]])

computeSpamPenalty(post) ==
  LET cashtags == OrZero(post.features.cashtag_count)
      urls == OrZero(post.features.url_count)
      capsRatio == OrZero(post.features.caps_ratio)
      Sc == IF cashtags >= 6 THEN 550000
            ELSE IF cashtags >= 4 THEN 750000 ELSE ONE
      Su == IF urls >= 2 THEN 850000 ELSE ONE
      Scaps == IF capsRatio > 600000 THEN 900000 ELSE ONE
  IN  Mul[Mul[Sc, Su], Scaps]

\* The loop of computePostSignals over the outcomes 1..i that the post has
\* a score entry for.
RECURSIVE SignalsLoop(_, _)
SignalsLoop(post, i) ==
  IF i = 0 THEN [maxRelevance |-> 0, maxCredibility |-> 0, Zp |-> 0]
  ELSE LET acc == SignalsLoop(post, i - 1)
       IN  IF i \notin DOMAIN post.scores THEN acc
           ELSE LET sc == post.scores[i]
                    r == clamp(sc.relevance, 0, ONE)
                    st == clamp(sc.strength, 0, ONE)
                    cr == clamp(sc.credibility, 0, ONE)
                    stance == clamp(sc.stance, -ONE, ONE)
                    sem == Mul[Mul[r, st], cr]
                IN  [maxRelevance |-> MaxOf(acc.maxRelevance, r),
                     maxCredibility |-> MaxOf(acc.maxCredibility, cr),
                     Zp |-> MaxOf(acc.Zp, Mul[sem, Abs(stance)])]

computePostSignals(post, K, M, A, D, S) ==
  LET acc == SignalsLoop(post, K)
  IN  [maxRelevance |-> acc.maxRelevance,
       maxCredibility |-> acc.maxCredibility,
       Zp |-> acc.Zp,
       Wp |-> Mul[Mul[Mul[Mul[Pow[acc.Zp, GAMMA], M], A], D], S]]

shouldAcceptPostAfterGrace(signals, ageSec) ==
  /\ signals.maxRelevance >= 200000
  /\ signals.maxCredibility >= 150000
  /\ signals.Wp >= W_MIN

shouldAcceptPost(signals, ageSec) ==
  IF ageSec <= GRACE_SEC
  THEN signals.maxRelevance >= 100000 /\ signals.Zp >= 25000
  ELSE /\ signals.maxRelevance >= 200000
       /\ signals.maxCredibility >= 150000
       /\ signals.Wp >= W_MIN

computeEvidenceDeltasMirroring(post, M, A, D, S, K) ==
  [i \in 1..K |->
     LET sc == IF i \in DOMAIN post.scores THEN post.scores[i]
               ELSE [post.scores[CHOOSE k \in DOMAIN post.scores : TRUE]
                       EXCEPT !.stance = 0 - @]
         r == clamp(sc.relevance, 0, ONE)
         st == clamp(sc.strength, 0, ONE)
         cr0 == clamp(sc.credibility, 0, ONE)
         conf == clamp(IF sc.confidence = Null THEN ONE
                       ELSE sc.confidence, 0, ONE)
         cr == Mul[cr0, conf]
         stance == clamp(sc.stance, -ONE, ONE)
         sem == Mul[Mul[r, st], cr]
         stanceAdj == Tanh[Mul[STANCE_K, stance]]
     IN  Div[Mul[Mul[Mul[Mul[Mul[stanceAdj, Pow[sem, GAMMA]], M], A], D],
                 S],
             Sqrt[K * ONE]]]

computeEvidenceDeltas(post, M, A, D, S, K) ==
  [i \in 1..K |->
     IF i \notin DOMAIN post.scores THEN 0
     ELSE LET sc == post.scores[i]
              r == clamp(sc.relevance, 0, ONE)
              st == clamp(sc.strength, 0, ONE)
              cr0 == clamp(sc.credibility, 0, ONE)
              conf == clamp(IF sc.confidence = Null THEN ONE
                            ELSE sc.confidence, 0, ONE)
              cr == Mul[cr0, conf]
              stance == clamp(sc.stance, -ONE, ONE)
              sem == Mul[Mul[r, st], cr]
              stanceAdj == Tanh[Mul[STANCE_K, stance]]
          IN  Div[Mul[Mul[Mul[Mul[Mul[stanceAdj, Pow[sem, GAMMA]], M], A], D],
                      S],
                  Sqrt[K * ONE]]]

\* ------------------------------------------------------------------------
\* computeProbabilitiesV1
\* ------------------------------------------------------------------------

\* Math.max(0, (now_ms - created_at_ms) / 1000); times are whole seconds.
AgeSec(now, post) == MaxOf(0, now - post.created_at)

AuthorCountAnyAge(now, posts, author) ==
  Cardinality({j \in 1..Len(posts) : posts[j].author_id = author})

\* authorCounts.get(author): the posts of the author created within 24 h.
AuthorCount(now, posts, author) ==
  Cardinality({j \in 1..Len(posts) :
                 /\ posts[j].author_id = author
                 /\ now - posts[j].created_at <= DAY_SEC})

ProcessPostFadingEarlier(acc, p, ageSec, K, D, M, A, S) ==
  IF ageSec > MAX_AGE_SEC THEN acc
  ELSE
    LET signals == computePostSignals(p, K, M, A, D, S)
    IN  IF ~shouldAcceptPost(signals, ageSec) THEN acc
        ELSE
          LET deltas == computeEvidenceDeltas(p, M, A, D, S, K)
          IN  [deltaE |-> [i \in 1..K |-> acc.deltaE[i] \div 2 + deltas[i]],
               Wbatch |-> acc.Wbatch \div 2 + signals.Wp,
               accepted |-> acc.accepted + 1]

\* The body of the loop for the post p of age ageSec, given the accumulators
\* acc of the earlier posts and the post's weights D, M, A and S.
ProcessPost(acc, p, ageSec, K, D, M, A, S) ==
  IF ageSec > MAX_AGE_SEC THEN acc
  ELSE
    LET signals == computePostSignals(p, K, M, A, D, S)
    IN  IF ~shouldAcceptPost(signals, ageSec) THEN acc
        ELSE
          LET deltas == computeEvidenceDeltas(p, M, A, D, S, K)
          IN  [deltaE |-> [i \in 1..K |-> acc.deltaE[i] + deltas[i]],
               Wbatch |-> acc.Wbatch + signals.Wp,
               accepted |-> acc.accepted + 1]

\* authorCounts.get(post.author_id) || 1.
AuthorCountOrOne(cnt) == IF cnt = 0 THEN 1 ELSE cnt

\* The loop over the posts 1..n: the evidence accumulators after it.
RECURSIVE EvidenceLoop(_, _, _, _)
EvidenceLoop(now, posts, K, n) ==
  IF n = 0 THEN [deltaE |-> [i \in 1..K |-> 0], Wbatch |-> 0, accepted |-> 0]
  ELSE ProcessPost(EvidenceLoop(now, posts, K, n - 1), posts[n],
                   AgeSec(now, posts[n]), K,
                   timeDecay(AgeSec(now, posts[n])),
                   computeMetricWeight(posts[n]),
                   authorDilution(AuthorCountOrOne(
                     AuthorCount(now, posts, posts[n].author_id))),
                   computeSpamPenalty(posts[n]))

\* pNew[i] = (1 - beta) * prevNorm[i] + beta * pInst[i].
inertiaMixSwapped(beta, prevNorm, pInst) ==
  [i \in 1..Len(prevNorm) |->
     Mul[beta, prevNorm[i]] + Mul[ONE - beta, pInst[i]]]

inertiaMix(beta, prevNorm, pInst) ==
  [i \in 1..Len(prevNorm) |->
     Mul[ONE - beta, prevNorm[i]] + Mul[beta, pInst[i]]]

\* floor = Math.max(0.001, 0.01 / K).
FloorOf(K) == MaxOf(1000, DivAbs[10000, K * ONE])

\* priorsNorm: the priors (uniform when absent) clamped to [1e-6, 1] and
\* divided by their sum + EPS.
normalisedPriors(K, prior) ==
  LET priors == [i \in 1..K |->
                   clamp(IF prior[i] = Null THEN DivAbs[ONE, K * ONE]
                         ELSE prior[i], PROB_MIN, ONE)]
  IN  [i \in 1..K |-> DivEps[priors[i], SeqSum(priors)]]

\* prevNorm: the previous probabilities (the normalised prior when absent)
\* clamped to [1e-6, 1] and divided by their sum + EPS.
normalisedPrev(K, prevProbs, priorsNorm) ==
  LET prev == [i \in 1..K |->
                 IF prevProbs[i] = Null THEN priorsNorm[i]
                 ELSE clamp(prevProbs[i], PROB_MIN, ONE)]
  IN  [i \in 1..K |-> DivEps[prev[i], SeqSum(prev)]]

\* T = T0 * (1 + ALPHA / sqrt(1 + Wbatch)).
temperatureOf(Wbatch) == Mul[T0, ONE + DivAbs[ALPHA, Sqrt[ONE + Wbatch]]]

\* beta = 1 - exp(-Wbatch / TAU).
betaOf(Wbatch) == ONE - ExpNeg[DivAbs[Wbatch, TAU]]

\* pInst = softmax((prevLogits + deltaE) / T).
instantaneous(K, prevLogits, deltaE, T) ==
  softmaxStable([i \in 1..K |-> Div[prevLogits[i] + deltaE[i], T]])

\* The returned object, pFinal being the floored and renormalised vector.
engineOutput(K, acc, beta, T, floor, pFinal) ==
  [probabilities |-> [i \in 1..K |-> DivEps[pFinal.num[i], pFinal.den]],
   num |-> pFinal.num,
   den |-> pFinal.den,
   notes |-> [accepted_posts |-> acc.accepted, Wbatch |-> acc.Wbatch,
              beta |-> beta, temperature |-> T, floor |-> floor]]

\* The update from the normalised previous vector and the accumulators of
\* the accepted posts.
posteriorUpdate(K, prevNorm, acc, T, beta) ==
  engineOutput(K, acc, beta, T, FloorOf(K),
               renormFloor(
                 inertiaMix(beta, prevNorm,
                            instantaneous(K, centeredLogitsFromProbs(prevNorm),
                                          acc.deltaE, T)),
                 FloorOf(K)))

\* Temperature and inertia of the batch, then the update.
batchUpdate(K, prevNorm, acc) ==
  posteriorUpdate(K, prevNorm, acc, temperatureOf(acc.Wbatch),
                  betaOf(acc.Wbatch))

\* ------------------------------------------------------------------------
\* State
\* ------------------------------------------------------------------------

VARIABLES
  input,                \* the engine input of the run being examined
  result,               \* what computeProbabilitiesV1 returned for it
  epc,                  \* "ready" before the call, "done" after it
  mstatus,              \* markets.status of every market
  templates,            \* the number of x_rule_templates of every market
  outcomes,             \* the number of outcomes of every market
  dbRules,              \* market_x_rules: rows [market_id, x_rule_id]
  xRules,               \* the rules live at X: [id, tag]
  nextRuleId,           \* the id X gives to the next rule
  syncTrace,            \* the operations of the last syncRules run
  wpc,                  \* where the worker is: start, connect, streaming,
                        \* backoff, exited
  exitCode,             \* the code the worker exited with, Null before
  reconnectAttempts,    \* the worker's counter of that name
  consecutiveFailures,  \* stream errors since the last opened connection
  delay,                \* the last backoff delay, in ms
  isShuttingDown,       \* the worker's flag of that name
  lastPost,             \* the last payload sent to the ingest endpoint
  rawPosts,             \* raw_posts: rows per (x_post_id, market_id)
  lastIngested,         \* per market the x_post_id ingested last
  scoredPosts,          \* scored_posts: the (post, market) that have rows
  marketState,          \* market_state: per market the row's post_counts,
                        \* Null without a row
  tick,                 \* what the last request to the pipeline did
  clock,                \* the time in ms, as the database clock shows it
  clockSkew,            \* what the web server's clock is ahead of it, in ms
  mkt,                  \* one market from its creation on: its outcomes'
                        \* priors and current probabilities, its
                        \* market_state row and its snapshots
  tickSizes,            \* the sizes of one tick of a market: what the
                        \* request asked of the post source and how many
                        \* posts it sent to the oracle
  rawRows,              \* raw_posts with what its rows hold: per
                        \* (x_post_id, market_id) the metrics of the row,
                        \* and the last payload of the ingest route
  chains,               \* the score-then-update chains the ingest route
                        \* started for one market, and the rows they read
                        \* and write
  backlog,              \* the raw posts of one market in the order of
                        \* ingested_at, and which of them have scores
  scoring               \* scored_posts with the columns of its rows, and
                        \* the last batch sent to the oracle

engineVars == <<input, result, epc>>

marketVars == <<mstatus, templates, outcomes>>

workerVars ==
  <<dbRules, xRules, nextRuleId, syncTrace, wpc, exitCode, reconnectAttempts,
    consecutiveFailures, delay, isShuttingDown, lastPost>>

storeVars == <<rawPosts, lastIngested, scoredPosts, marketState>>

pipelineVars == <<storeVars, tick>>

lifeVars == <<clock, clockSkew, mkt, rawRows>>

flowVars == <<chains, backlog, scoring>>

vars ==
  <<engineVars, marketVars, workerVars, pipelineVars, lifeVars, tickSizes,
    flowVars>>

\* Bounds of the markets, the markets a request is addressed to (the cron
\* run takes every active market), the posts, the rule ids and the
\* failure count.
NMarkets == 2

NRequested == 1

NPosts == 2

MaxRules == 3

MaxFailures == 12

Markets == 1..NMarkets

Requested == 1..NRequested

PostIds == 1..NPosts

Statuses == {"active", "closed", "resolved"}

\* The worker's configuration: the defaults of its environment schema.
RECONNECT_DELAY_MS == 5000

MAX_RECONNECT_ATTEMPTS == 10

NoPost == [x_post_id |-> Null, market_id |-> Null]

\* What a request records about itself: its route and market, why it was
\* turned away (if it was), its operations in order, whether it received
\* posts all of which were stored before, and the number of raw rows it
\* created; for the public refresh also the time in ms since updated_at of
\* the market's state when the request arrived.
Tick(route, m, rejected, trace, known, created, elapsed) ==
  [route |-> route, market |-> m, rejected |-> rejected, trace |-> trace,
   known |-> known, created |-> created, elapsed |-> elapsed]

NoTick == Tick("", 0, "", <<>>, FALSE, 0, Null)

\* The parts of the state a specification leaves alone.
MarketsIdle ==
  /\ mstatus = [m \in Markets |-> "active"]
  /\ templates = [m \in Markets |-> 1]
  /\ outcomes = [m \in Markets |-> 2]

WorkerIdle ==
  /\ dbRules = {}
  /\ xRules = {}
  /\ nextRuleId = 1
  /\ syncTrace = <<>>
  /\ wpc = "off"
  /\ exitCode = Null
  /\ reconnectAttempts = 0
  /\ consecutiveFailures = 0
  /\ delay = 0
  /\ isShuttingDown = FALSE
  /\ lastPost = NoPost

PipelineIdle ==
  /\ rawPosts = [k \in PostIds \X Markets |-> 0]
  /\ lastIngested = [m \in Markets |-> Null]
  /\ scoredPosts = {}
  /\ marketState = [m \in Markets |-> Null]
  /\ tick = NoTick

\* The market of mkt before it is asked for.
NoMarket ==
  [created |-> FALSE, prior |-> <<>>, current |-> <<>>, probabilities |-> <<>>,
   num |-> <<>>, den |-> 0, post_counts |-> 0, updated_at |-> Null,
   snapshots |-> <<>>, rejections |-> 0]

\* No raw row and no payload yet.
NoRows ==
  [rows |-> [k \in PostIds \X Markets |-> Null], market_id |-> Null,
   posts |-> <<>>]

LifeIdle ==
  /\ clock = 0
  /\ clockSkew = 0
  /\ mkt = NoMarket
  /\ rawRows = NoRows

\* The sizes of a tick: the entry point, the max_results asked of the post
\* source (0 when the source is not called), the number of raw posts of the
\* market without scores and the number of posts sent to the oracle.
Sizes(route, max_results, unscored, sent) ==
  [route |-> route, max_results |-> max_results, unscored |-> unscored,
   sent |-> sent]

NoBatch == Sizes("", 0, 0, 0)

BatchIdle == tickSizes = NoBatch

\* No chain was started and no backlog is looked at.
ChainsIdle == chains = Null

BacklogIdle == backlog = Null

ScoringIdle == scoring = Null

FlowIdle == ChainsIdle /\ BacklogIdle /\ ScoringIdle

computeProbabilitiesV1AtWallClock(in) ==
  IF in.K = 0
  THEN [probabilities |-> <<>>, num |-> <<>>, den |-> 0,
        notes |-> [accepted_posts |-> 0, Wbatch |-> 0, beta |-> 0,
                   temperature |-> T0, floor |-> 0]]
  ELSE batchUpdate(in.K,
                   normalisedPrev(in.K, in.prev,
                                  normalisedPriors(in.K, in.prior)),
                   EvidenceLoop(in.now + clock * MAX_AGE_SEC, in.posts,
                                in.K, Len(in.posts)))

\* The engine.  input = [K, prior, prev, now, posts]: prior[i] and prev[i]
\* are the outcome's prior_probability and prev_probabilities entry, Null
\* when absent.  The result carries the returned probabilities as the exact
\* fractions num[i] / (den + EPS) and, rounded to the grid, as probabilities.
computeProbabilitiesV1(in) ==
  IF in.K = 0
  THEN [probabilities |-> <<>>, num |-> <<>>, den |-> 0,
        notes |-> [accepted_posts |-> 0, Wbatch |-> 0, beta |-> 0,
                   temperature |-> T0, floor |-> 0]]
  ELSE batchUpdate(in.K,
                   normalisedPrev(in.K, in.prev,
                                  normalisedPriors(in.K, in.prior)),
                   EvidenceLoop(in.now, in.posts, in.K,
                                Len(in.posts)))

\* ------------------------------------------------------------------------
\* The engine applied to bounded inputs
\* ------------------------------------------------------------------------

\* Bounds of the engine inputs.
MaxK == 2

MaxPosts == 2

\* The instant `now` of every run, in seconds.
NOW == 400000

PriorChoices == {Null, 250000}

PrevChoices == {Null, 1000, 600000, ONE}

NoMetrics == [likes |-> Null, reposts |-> Null, replies |-> Null,
              quotes |-> Null]

NoFeatures == [cashtag_count |-> Null, url_count |-> Null,
               caps_ratio |-> Null]

Score(r, s, st, c, cf) ==
  [relevance |-> r, stance |-> s, strength |-> st, credibility |-> c,
   confidence |-> cf]

\* A post of the given age that fully supports outcome 1 and is neutral on
\* the other outcomes (the spec's "single fresh supportive post").
Supportive(K, age, author) ==
  [created_at |-> NOW - age, author_id |-> author, author_followers |-> 0,
   author_verified |-> FALSE, initial_metrics |-> NoMetrics,
   features |-> NoFeatures,
   scores |-> [i \in 1..K |->
                 Score(ONE, IF i = 1 THEN ONE ELSE 0, ONE, ONE, ONE)]]

\* A one-hour-old spammy post of a verified author that speaks against
\* outcome 1 only (no score entry for the other outcomes), one score out of
\* range.
Against(K) ==
  [created_at |-> NOW - 3600, author_id |-> 2, author_followers |-> 100000,
   author_verified |-> TRUE,
   initial_metrics |-> [likes |-> 10, reposts |-> 2, replies |-> 1,
                        quotes |-> 1],
   features |-> [cashtag_count |-> 7, url_count |-> 2, caps_ratio |-> 900000],
   scores |-> [i \in {1} |-> Score(1200000, -700000, 900000, 800000, Null)]]

\* A post of low relevance, of the given age.
Weak(K, age) ==
  [created_at |-> NOW - age, author_id |-> 1, author_followers |-> Null,
   author_verified |-> FALSE, initial_metrics |-> NoMetrics,
   features |-> NoFeatures,
   scores |-> [i \in 1..K |-> Score(150000, ONE, ONE, ONE, ONE)]]

PostPool(K) ==
  {Supportive(K, 60, 1), Supportive(K, 73 * 3600, 1), Against(K),
   Weak(K, 7200), Weak(K, 60)}

PostSeqs(K) == UNION {[1..n -> PostPool(K)] : n \in 0..MaxPosts}

EngineInputs ==
  UNION {[K : {k}, prior : [1..k -> PriorChoices],
          prev : [1..k -> PrevChoices], now : {NOW}, posts : PostSeqs(k)]
         : k \in 0..MaxK}

NoResult ==
  [probabilities |-> <<>>, num |-> <<>>, den |-> 0,
   notes |-> [accepted_posts |-> 0, Wbatch |-> 0, beta |-> 0,
              temperature |-> 0, floor |-> 0]]

EngineIdle ==
  /\ input = [K |-> 0, prior |-> <<>>, prev |-> <<>>, now |-> NOW,
              posts |-> <<>>]
  /\ result = NoResult
  /\ epc = "idle"

InitEngine ==
  /\ input \in EngineInputs
  /\ result = NoResult
  /\ epc = "ready"
  /\ MarketsIdle
  /\ WorkerIdle
  /\ PipelineIdle
  /\ LifeIdle
  /\ BatchIdle
  /\ FlowIdle

\* One call of the engine on the chosen input.
Compute ==
  /\ epc = "ready"
  /\ result' = computeProbabilitiesV1(input)
  /\ epc' = "done"
  /\ UNCHANGED <<input, marketVars, workerVars, pipelineVars, lifeVars,
                 tickSizes, flowVars>>

\* A number of the schema with .min(lo).max(hi); Null is an absent one.
within(x, lo, hi) == x = Null \/ (lo <= x /\ x <= hi)

\* outcomeScoresSchema: relevance, strength and credibility are numbers of
\* [0, 1], stance a number of [-1, 1], confidence absent or in [0, 1].
outcomeScoresAccepted(sc) ==
  /\ sc.relevance # Null /\ within(sc.relevance, 0, ONE)
  /\ sc.stance # Null /\ within(sc.stance, -ONE, ONE)
  /\ sc.strength # Null /\ within(sc.strength, 0, ONE)
  /\ sc.credibility # Null /\ within(sc.credibility, 0, ONE)
  /\ within(sc.confidence, 0, ONE)

\* probabilityEngineInputSchema.parse on an input of the right shape: the
\* priors are absent or in [0, 1] and every score of every post passes.
inputSchemaAccepts(in) ==
  /\ \A i \in 1..in.K : within(in.prior[i], 0, ONE)
  /\ \A j \in 1..Len(in.posts) :
       \A k \in DOMAIN in.posts[j].scores :
         outcomeScoresAccepted(in.posts[j].scores[k])

\* computeProbabilities, the entry point of the engine: parse (a throw for
\* an input the schema does not accept), then the engine.
computeProbabilities(in) ==
  IF inputSchemaAccepts(in)
  THEN [threw |-> FALSE, result |-> computeProbabilitiesV1(in)]
  ELSE [threw |-> TRUE, result |-> NoResult]

\* One call of the entry point on the chosen input.
ComputeEntry ==
  /\ epc = "ready"
  /\ result' = computeProbabilities(input).result
  /\ epc' = IF computeProbabilities(input).threw THEN "rejected" ELSE "done"
  /\ UNCHANGED <<input, marketVars, workerVars, pipelineVars, lifeVars,
                 tickSizes, flowVars>>

\* How many times the engine is called again on the input.
MaxRecomputes == 2

\* Another call of the engine on the same input, read at the wall clock of
\* the call; the wall clock moves on after it.
ComputeAgain ==
  /\ epc = "done"
  /\ clock < MaxRecomputes
  /\ clock' = clock + 1
  /\ result' = computeProbabilitiesV1(input)
  /\ UNCHANGED <<input, epc, clockSkew, mkt, rawRows, marketVars, workerVars,
                 pipelineVars, tickSizes, flowVars>>

NextEngine == Compute \/ ComputeEntry \/ ComputeAgain

SpecEngine == InitEngine /\ [][NextEngine]_vars

\* ------------------------------------------------------------------------
\* Properties of the engine
\* ------------------------------------------------------------------------

\* EPS = 1e-12 counted in millionths of a grid unit.
EPS_PPM == 1

\* num / (den + EPS) >= v for grid values num >= 0, den > 0, 0 < v <= 10^4:
\* with num * ONE = q * den + r, 0 <= r < den, the inequality reads
\* (q - v) * den + r >= v * EPS, and 0 < v * EPS < 1.
FracAtLeast(num, den, v) ==
  LET d == LongDiv[num, den]
  IN  d.q > v \/ (d.q = v /\ d.r >= 1)

\* | 1 - (num[1] + ... + num[K]) / (den + EPS) | <= 1e-9.  Counted in
\* units of 10^-12 the inequality is
\*   10^9 * | (den - sum) * 10^6 + EPS_PPM | <= den * 10^6 + EPS_PPM,
\* which for den below 2^31 holds exactly when the numerators add up to den
\* and den >= 1000 * EPS_PPM.
SumWithinTolerance(num, den) ==
  /\ SeqSum(num) = den
  /\ den >= 1000 * EPS_PPM

EngineDone == epc = "done" /\ input.K >= 1

\* C1: for K >= 1 every returned probability, i.e. every fraction
\* num[i] / (den + EPS) left by renormFloor, is at least
\* floor = max(0.001, 0.01 / K).
C1_EveryProbabilityAtLeastFloor ==
  EngineDone =>
    \A i \in 1..input.K :
      FracAtLeast(result.num[i], result.den, FloorOf(input.K))

NormalisedPrevious(inp) ==
  LET K == inp.K
      pri == [i \in 1..K |->
                clamp(IF inp.prior[i] = Null THEN DivAbs[ONE, K * ONE]
                      ELSE inp.prior[i], PROB_MIN, ONE)]
      priN == [i \in 1..K |-> DivAbs[pri[i], SeqSum(pri)]]
      prv == [i \in 1..K |->
                IF inp.prev[i] = Null THEN priN[i]
                ELSE clamp(inp.prev[i], PROB_MIN, ONE)]
  IN  [i \in 1..K |-> DivAbs[prv[i], SeqSum(prv)]]

\* Equality of two probabilities up to the rounding of the grid.
GRID_TOL == 2

SameProbabilities(p, q) ==
  \A i \in 1..Len(p) : Abs(p[i] - q[i]) <= GRID_TOL

\* C3 as stated: with no posts W_batch = 0, beta = 0 and the output equals
\* the normalised previous probabilities, whatever the previous vector.
C3_EmptyPostsReturnPrevious ==
  (EngineDone /\ input.posts = <<>>) =>
    /\ result.notes.Wbatch = 0
    /\ result.notes.beta = 0
    /\ SameProbabilities(result.probabilities, NormalisedPrevious(input))

\* C3 amended: with no posts W_batch = 0 and beta = 0, and the output
\* equals the normalised previous probabilities provided none of them is
\* below the floor.
C3_EmptyPostsReturnPreviousAboveFloor ==
  (EngineDone /\ input.posts = <<>>) =>
    /\ result.notes.Wbatch = 0
    /\ result.notes.beta = 0
    /\ (\A i \in 1..input.K :
          NormalisedPrevious(input)[i] >= FloorOf(input.K))
       => SameProbabilities(result.probabilities, NormalisedPrevious(input))

\* C3 witness: a run without posts on a non-uniform previous vector that
\* lies above the floor.
C3_Witness ==
  /\ EngineDone
  /\ input.K = 2
  /\ input.posts = <<>>
  /\ input.prev = <<600000, ONE>>
  /\ result.probabilities = <<375000, 625000>>

\* C20: the entry point answers an input of the right shape with a result,
\* also when a score or a prior is outside its range (the value is clamped,
\* the input is not rejected).
C20_RangeViolationClamped == epc # "rejected"

\* The posts of the sequence that are at most MAX_AGE old at now.
WithoutExpired(now, posts) ==
  SelectSeq(posts, LAMBDA p : now - p.created_at <= MAX_AGE_SEC)

\* The input without its posts older than MAX_AGE.
Unexpired(in) == [in EXCEPT !.posts = WithoutExpired(in.now, in.posts)]

\* C21: the posts older than MAX_AGE have no effect: the engine returns for
\* the input what it returns for the input without them (probabilities,
\* accepted_posts, W_batch, beta and temperature), and every other post is
\* diluted by the same author count with them as without them.
C21_ExpiredPostsHaveNoEffect ==
  epc = "done" =>
    /\ result = computeProbabilitiesV1(Unexpired(input))
    /\ \A j \in 1..Len(input.posts) :
         AuthorCount(input.now, input.posts, input.posts[j].author_id)
           = AuthorCount(input.now, Unexpired(input).posts,
                         input.posts[j].author_id)

\* C21 witness: a run on an accepted fresh post and a post of 73 h of the
\* same author.
C21_Witness ==
  /\ epc = "done"
  /\ input.K = 2
  /\ input.posts = <<Supportive(2, 73 * 3600, 1), Supportive(2, 60, 1)>>
  /\ result.notes.accepted_posts = 1

RECURSIVE Reversed(_)
Reversed(s) == IF s = <<>> THEN <<>> ELSE Append(Reversed(Tail(s)), Head(s))

\* C22: the order of the posts does not matter: the engine returns for the
\* posts in reverse order the probabilities (within the tolerance of the
\* grid), the accepted_posts and the W_batch it returns for the input.
C22_PostOrderIrrelevant ==
  epc = "done" =>
    LET r == computeProbabilitiesV1(
               [input EXCEPT !.posts = Reversed(input.posts)])
    IN  /\ SameProbabilities(result.probabilities, r.probabilities)
        /\ result.notes.accepted_posts = r.notes.accepted_posts
        /\ result.notes.Wbatch = r.notes.Wbatch

\* C22 witness: a run on two different posts, both accepted.
C22_Witness ==
  /\ epc = "done"
  /\ Len(input.posts) = 2
  /\ input.posts[1] # input.posts[2]
  /\ result.notes.accepted_posts = 2

C24_SingleOutcomeIsOne ==
  (epc = "done" /\ input.K = 1) =>
    FracAtLeast(result.num[1], result.den, ONE)

\* The signals of post j of the input, with the weights the loop gives it.
SignalsOf(in, j) ==
  LET p == in.posts[j]
  IN  computePostSignals(p, in.K, computeMetricWeight(p),
        authorDilution(AuthorCountOrOne(
          AuthorCount(in.now, in.posts, p.author_id))),
        timeDecay(AgeSec(in.now, p)), computeSpamPenalty(p))

\* The rule of acceptance as the claim states it, for post j of the input:
\* up to 300 s of age max_relevance >= 0.1 and Z_p >= 0.025; beyond, and up
\* to 72 h, max_relevance >= 0.2, max_credibility >= 0.15 and W_p >= 0.018.
AcceptedByRule(in, j) ==
  LET age == AgeSec(in.now, in.posts[j])
      s == SignalsOf(in, j)
  IN  IF age <= 300
      THEN s.maxRelevance >= 100000 /\ s.Zp >= 25000
      ELSE /\ age <= 72 * 3600
           /\ s.maxRelevance >= 200000
           /\ s.maxCredibility >= 150000
           /\ s.Wp >= 18000

\* C31: the posts the engine counts as accepted are those the rule accepts,
\* and W_batch is the sum of W_p over them.
C31_AcceptedByThresholds ==
  EngineDone =>
    /\ result.notes.accepted_posts
         = Cardinality({j \in 1..Len(input.posts) : AcceptedByRule(input, j)})
    /\ result.notes.Wbatch
         = SeqSum([j \in 1..Len(input.posts) |->
                    IF AcceptedByRule(input, j) THEN SignalsOf(input, j).Wp
                    ELSE 0])

\* C31 witness: a run on a post of low relevance within the grace period,
\* accepted, and the same post two hours old, not accepted.
C31_Witness ==
  /\ EngineDone
  /\ input.posts = <<Weak(input.K, 60), Weak(input.K, 7200)>>
  /\ result.notes.accepted_posts = 1

\* ------------------------------------------------------------------------
\* Ingestion worker: rule sync
\* ------------------------------------------------------------------------

RECURSIVE SortedSeq(_)
SortedSeq(S) ==
  IF S = {} THEN <<>>
  ELSE LET m == CHOOSE x \in S : \A y \in S : x <= y
       IN  <<m>> \o SortedSeq(S \ {m})

\* One external operation of a sync run: a request to X or a bookkeeping
\* write, its argument (a rule id or a market id) and whether it succeeded.
SyncOp(op, arg, ok) == [op |-> op, arg |-> arg, ok |-> ok]

DeleteOps == {"x_delete", "db_delete"}

AddOps == {"x_add", "db_save"}

\* getActiveMarkets: the ids of the markets whose status is active.
activeMarketIds == {m \in Markets : mstatus[m] = "active"}

\* Active markets without a bookkeeping rule.
marketsNeedingRules ==
  {m \in activeMarketIds : \A r \in dbRules : r.market_id # m}

\* The X rule ids of the bookkeeping rules of markets no longer active.
rulesToRemove ==
  {r.x_rule_id : r \in {q \in dbRules : q.market_id \notin activeMarketIds}}

\* The delete phase.  del is what happens to the requests: "ok", "x_fails"
\* (deleteStreamRules throws) or "db_fails" (the k-th deleteStreamRule
\* throws).  A throw leaves syncRules at once.
DeletePhase(del, k) ==
  LET ids == SortedSeq(rulesToRemove)
      n == Len(ids)
      done == IF del = "db_fails" THEN k - 1 ELSE n
      gone == {ids[j] : j \in 1..done}
  IN  IF n = 0
      THEN [trace |-> <<>>, xRules |-> xRules, dbRules |-> dbRules,
            threw |-> FALSE]
      ELSE IF del = "x_fails"
      THEN [trace |-> <<SyncOp("x_delete", n, FALSE)>>, xRules |-> xRules,
            dbRules |-> dbRules, threw |-> TRUE]
      ELSE [trace |-> <<SyncOp("x_delete", n, TRUE)>>
                      \o [j \in 1..done |-> SyncOp("db_delete", ids[j], TRUE)]
                      \o (IF del = "db_fails"
                          THEN <<SyncOp("db_delete", ids[k], FALSE)>>
                          ELSE <<>>),
            xRules |-> {x \in xRules : x.id \notin rulesToRemove},
            dbRules |-> {r \in dbRules : r.x_rule_id \notin gone},
            threw |-> del = "db_fails"]

\* The add phase over the markets ms (in order), from the state st of the
\* rules; out[m] is what happens to market m's requests: "added",
\* "add_fails" (addStreamRules throws), "no_data" (X answers without a
\* rule) or "save_fails" (saveStreamRule throws).  Every throw is caught
\* and the loop goes on.
RECURSIVE AddPhase(_, _, _)
AddPhase(ms, out, st) ==
  IF ms = <<>> THEN st
  ELSE
    LET m == Head(ms)
        id == st.nextRuleId
        step ==
          IF templates[m] = 0 THEN st
          ELSE IF out[m] = "add_fails"
          THEN [st EXCEPT !.trace = @ \o <<SyncOp("x_add", m, FALSE)>>]
          ELSE IF out[m] = "no_data"
          THEN [st EXCEPT !.trace = @ \o <<SyncOp("x_add", m, TRUE)>>]
          ELSE IF out[m] = "save_fails"
          THEN [st EXCEPT !.trace = @ \o <<SyncOp("x_add", m, TRUE),
                                          SyncOp("db_save", m, FALSE)>>,
                          !.xRules = @ \cup {[id |-> id, tag |-> m]},
                          !.nextRuleId = id + 1]
          ELSE [st EXCEPT !.trace = @ \o <<SyncOp("x_add", m, TRUE),
                                          SyncOp("db_save", m, TRUE)>>,
                          !.xRules = @ \cup {[id |-> id, tag |-> m]},
                          !.dbRules = @ \cup {[market_id |-> m,
                                               x_rule_id |-> id]},
                          !.nextRuleId = id + 1]
    IN  AddPhase(Tail(ms), out, step)

\* The operations of one run: those of the delete phase, then those of the
\* add phase.
syncRulesOpsAddsFirst(deletes, adds) == adds \o deletes

syncRulesOps(deletes, adds) == deletes \o adds

AddOutcomes == {"added", "add_fails", "no_data", "save_fails"}

\* The rule ids a run with the outcomes out asks X for.
RulesAsked(out) ==
  Cardinality({m \in marketsNeedingRules :
                 templates[m] > 0 /\ out[m] \in {"added", "save_fails"}})

\* syncRules: what the run does and leaves behind.  fetch = FALSE is a
\* throw of one of the three reads at the start (the reads are recorded
\* as one operation "fetch").
syncRules(fetch, del, k, out) ==
  LET d == DeletePhase(del, k)
      a == AddPhase(SortedSeq(marketsNeedingRules), out,
                    [trace |-> <<>>, xRules |-> d.xRules,
                     dbRules |-> d.dbRules, nextRuleId |-> nextRuleId])
  IN  IF ~fetch
      THEN [trace |-> <<SyncOp("fetch", 0, FALSE)>>, xRules |-> xRules,
            dbRules |-> dbRules, nextRuleId |-> nextRuleId, threw |-> TRUE]
      ELSE IF d.threw
      THEN [trace |-> <<SyncOp("fetch", 0, TRUE)>> \o d.trace,
            xRules |-> d.xRules, dbRules |-> d.dbRules,
            nextRuleId |-> nextRuleId, threw |-> TRUE]
      ELSE [trace |-> <<SyncOp("fetch", 0, TRUE)>>
                      \o syncRulesOps(d.trace, a.trace),
            xRules |-> a.xRules, dbRules |-> a.dbRules,
            nextRuleId |-> a.nextRuleId, threw |-> FALSE]

\* The inputs of a run: which requests fail (said only of requests the
\* run makes).
SyncChoices ==
  {c \in [fetch : BOOLEAN, del : {"ok", "x_fails", "db_fails"},
          k : 1..MaxRules, out : [Markets -> AddOutcomes]] :
     /\ c.del = "db_fails" => c.k <= Cardinality(rulesToRemove)
     /\ c.del # "db_fails" => c.k = 1
     /\ (rulesToRemove = {} \/ ~c.fetch) => c.del = "ok"
     /\ \A m \in Markets :
          (\/ ~c.fetch
           \/ c.del # "ok"
           \/ m \notin marketsNeedingRules
           \/ templates[m] = 0) => c.out[m] = "added"
     /\ nextRuleId + RulesAsked(c.out) - 1 <= MaxRules}

\* The effect of a run on the rules and the record of its operations.
RunSync(c) ==
  LET r == syncRules(c.fetch, c.del, c.k, c.out)
  IN  /\ syncTrace' = r.trace
      /\ xRules' = r.xRules
      /\ dbRules' = r.dbRules
      /\ nextRuleId' = r.nextRuleId

\* ------------------------------------------------------------------------
\* Ingestion worker: main, the stream loop and shutdown
\* ------------------------------------------------------------------------

\* process.exit(code).
Exit(code) ==
  /\ wpc' = "exited"
  /\ exitCode' = code

\* main up to runStream: the initial rule sync; a throw of it reaches
\* main().catch, which exits with code 1.
MainStart ==
  /\ wpc = "start"
  /\ \E c \in SyncChoices :
       /\ RunSync(c)
       /\ IF syncRules(c.fetch, c.del, c.k, c.out).threw
          THEN Exit(1)
          ELSE wpc' = "connect" /\ UNCHANGED exitCode
  /\ UNCHANGED <<mstatus, templates, outcomes, reconnectAttempts,
                 consecutiveFailures, delay, isShuttingDown, lastPost>>
  /\ UNCHANGED <<engineVars, pipelineVars, lifeVars,
                 tickSizes, flowVars>>

\* The setInterval callback: a rule sync whose throw is caught and logged.
PeriodicSync ==
  /\ wpc \in {"connect", "streaming", "backoff"}
  /\ \E c \in SyncChoices : RunSync(c)
  /\ UNCHANGED <<mstatus, templates, outcomes, wpc, exitCode,
                 reconnectAttempts, consecutiveFailures, delay,
                 isShuttingDown, lastPost>>
  /\ UNCHANGED <<engineVars, pipelineVars, lifeVars,
                 tickSizes, flowVars>>

\* The catch block of runStream, entered with the counter at attempts.
StreamError(attempts) ==
  /\ reconnectAttempts' = attempts + 1
  /\ consecutiveFailures' = consecutiveFailures + 1
  /\ IF attempts + 1 >= MAX_RECONNECT_ATTEMPTS
     THEN Exit(1) /\ UNCHANGED delay
     ELSE /\ delay' = RECONNECT_DELAY_MS * Pow2[attempts]
          /\ wpc' = "backoff"
          /\ UNCHANGED exitCode

\* The top of the loop: the counter is set to 0 and the stream is opened;
\* connectToStream either answers or throws.
Connect ==
  /\ wpc = "connect"
  /\ ~isShuttingDown
  /\ \E ok \in BOOLEAN :
       IF ok
       THEN /\ reconnectAttempts' = 0
            /\ consecutiveFailures' = 0
            /\ wpc' = "streaming"
            /\ UNCHANGED <<delay, exitCode>>
       ELSE /\ consecutiveFailures < MaxFailures
            /\ StreamError(0)
  /\ UNCHANGED <<mstatus, templates, outcomes, dbRules, xRules, nextRuleId,
                 syncTrace, isShuttingDown, lastPost>>
  /\ UNCHANGED <<engineVars, pipelineVars, lifeVars,
                 tickSizes, flowVars>>

\* A tweet arrives that matches a rule on X: ingestTweet posts it to the
\* ingest endpoint under the rule's tag as the market id.
ReceiveTweet ==
  /\ wpc = "streaming"
  /\ \E t \in PostIds, x \in xRules :
       lastPost' = [x_post_id |-> t, market_id |-> x.tag]
  /\ UNCHANGED <<mstatus, templates, outcomes, dbRules, xRules, nextRuleId,
                 syncTrace, wpc, exitCode, reconnectAttempts,
                 consecutiveFailures, delay, isShuttingDown>>
  /\ UNCHANGED <<engineVars, pipelineVars, lifeVars,
                 tickSizes, flowVars>>

\* reader.read() throws while the stream is open.
ReadError ==
  /\ wpc = "streaming"
  /\ consecutiveFailures < MaxFailures
  /\ StreamError(reconnectAttempts)
  /\ UNCHANGED <<mstatus, templates, outcomes, dbRules, xRules, nextRuleId,
                 syncTrace, isShuttingDown, lastPost>>
  /\ UNCHANGED <<engineVars, pipelineVars, lifeVars,
                 tickSizes, flowVars>>

\* The stream ends without an error: the loop starts over at once.
StreamEnd ==
  /\ wpc = "streaming"
  /\ wpc' = "connect"
  /\ UNCHANGED <<mstatus, templates, outcomes, dbRules, xRules, nextRuleId,
                 syncTrace, exitCode, reconnectAttempts, consecutiveFailures,
                 delay, isShuttingDown, lastPost>>
  /\ UNCHANGED <<engineVars, pipelineVars, lifeVars,
                 tickSizes, flowVars>>

\* The backoff timer fires.
BackoffElapsed ==
  /\ wpc = "backoff"
  /\ wpc' = "connect"
  /\ UNCHANGED <<mstatus, templates, outcomes, dbRules, xRules, nextRuleId,
                 syncTrace, exitCode, reconnectAttempts, consecutiveFailures,
                 delay, isShuttingDown, lastPost>>
  /\ UNCHANGED <<engineVars, pipelineVars, lifeVars,
                 tickSizes, flowVars>>

\* SIGINT or SIGTERM.
Shutdown ==
  /\ wpc # "exited"
  /\ isShuttingDown' = TRUE
  /\ Exit(0)
  /\ UNCHANGED <<mstatus, templates, outcomes, dbRules, xRules, nextRuleId,
                 syncTrace, reconnectAttempts, consecutiveFailures, delay,
                 lastPost>>
  /\ UNCHANGED <<engineVars, pipelineVars, lifeVars,
                 tickSizes, flowVars>>

\* A market leaves the active status (markets.status is one of active,
\* closed, resolved; the worker reads it, others write it).
MarketCloses ==
  /\ wpc # "exited"
  /\ \E m \in activeMarketIds, s \in {"closed", "resolved"} :
       mstatus' = [mstatus EXCEPT ![m] = s]
  /\ UNCHANGED <<templates, outcomes, dbRules, xRules, nextRuleId, syncTrace,
                 wpc, exitCode, reconnectAttempts, consecutiveFailures, delay,
                 isShuttingDown, lastPost>>
  /\ UNCHANGED <<engineVars, pipelineVars, lifeVars,
                 tickSizes, flowVars>>

\* The worker before main's initial sync: every market active, with or
\* without templates.
InitSync ==
  /\ mstatus = [m \in Markets |-> "active"]
  /\ templates \in [Markets -> 0..1]
  /\ outcomes = [m \in Markets |-> 2]
  /\ dbRules = {}
  /\ xRules = {}
  /\ nextRuleId = 1
  /\ syncTrace = <<>>
  /\ wpc = "start"
  /\ exitCode = Null
  /\ reconnectAttempts = 0
  /\ consecutiveFailures = 0
  /\ delay = 0
  /\ isShuttingDown = FALSE
  /\ lastPost = NoPost
  /\ EngineIdle
  /\ PipelineIdle
  /\ LifeIdle
  /\ BatchIdle
  /\ FlowIdle

\* The rule syncs of the worker while markets close.
NextSync ==
  \/ MainStart
  \/ PeriodicSync
  \/ MarketCloses

SpecSync == InitSync /\ [][NextSync]_vars

\* The worker when main enters runStream, its initial sync having given
\* every market with templates a rule.
InitWorker ==
  /\ mstatus = [m \in Markets |-> "active"]
  /\ templates \in [Markets -> 0..1]
  /\ outcomes = [m \in Markets |-> 2]
  /\ dbRules = {[market_id |-> m, x_rule_id |-> m] :
                  m \in {n \in Markets : templates[n] > 0}}
  /\ xRules = {[id |-> m, tag |-> m] :
                 m \in {n \in Markets : templates[n] > 0}}
  /\ nextRuleId = NMarkets + 1
  /\ syncTrace = <<>>
  /\ wpc = "connect"
  /\ exitCode = Null
  /\ reconnectAttempts = 0
  /\ consecutiveFailures = 0
  /\ delay = 0
  /\ isShuttingDown = FALSE
  /\ lastPost = NoPost
  /\ EngineIdle
  /\ PipelineIdle
  /\ LifeIdle
  /\ BatchIdle
  /\ FlowIdle

\* The stream loop of the worker.
NextWorker ==
  \/ Connect
  \/ ReceiveTweet
  \/ ReadError
  \/ StreamEnd
  \/ BackoffElapsed
  \/ Shutdown

SpecWorker == InitWorker /\ [][NextWorker]_vars

\* The tag `market:${marketId}` the web application's addStreamRules gives
\* its rules: a string that is the id of no market, written -m here.
marketTag(m) == 0 - m

\* addStreamRules(marketId, templates) of the web application's X client
\* (createFilteredRulesForMarket): one rule per template is added at X.
CreateFilteredRules ==
  /\ nextRuleId <= MaxRules
  /\ \E m \in Markets :
       /\ templates[m] > 0
       /\ xRules' = xRules \cup {[id |-> nextRuleId, tag |-> marketTag(m)]}
  /\ nextRuleId' = nextRuleId + 1
  /\ UNCHANGED <<mstatus, templates, outcomes, dbRules, syncTrace, wpc,
                 exitCode, reconnectAttempts, consecutiveFailures, delay,
                 isShuttingDown, lastPost>>
  /\ UNCHANGED <<engineVars, pipelineVars, lifeVars, tickSizes, flowVars>>

\* The worker streaming while the web application registers rules.
NextRules == NextWorker \/ CreateFilteredRules

SpecRules == InitWorker /\ [][NextRules]_vars

\* ------------------------------------------------------------------------
\* Properties of the ingestion worker
\* ------------------------------------------------------------------------

\* C8: the number of consecutive failed attempts never exceeds
\* max_reconnect_attempts, and when it reaches that cap the worker has
\* exited with code 1.
C8_ExitsAfterMaxReconnectAttempts ==
  /\ consecutiveFailures <= MAX_RECONNECT_ATTEMPTS
  /\ consecutiveFailures = MAX_RECONNECT_ATTEMPTS
       => (wpc = "exited" /\ exitCode = 1)

\* C9: the delay waited before the k-th consecutive reconnection is
\* reconnect_delay_ms * 2^(k-1).
C9_DelayDoublesPerConsecutiveFailure ==
  wpc = "backoff"
    => delay = RECONNECT_DELAY_MS * Pow2[consecutiveFailures - 1]

\* C10: in the operations of a sync run no deletion comes after an
\* addition.
C10_DeletesBeforeAdds ==
  \A i \in 1..Len(syncTrace) : \A j \in 1..Len(syncTrace) :
    (syncTrace[i].op \in AddOps /\ syncTrace[j].op \in DeleteOps) => j < i

\* C10 witness: a run that deleted the rule of a closed market, in X and in
\* the bookkeeping, and added and saved one for an active market.
C10_Witness ==
  /\ \E i \in 1..Len(syncTrace) : syncTrace[i] = SyncOp("db_delete", 1, TRUE)
  /\ \E i \in 1..Len(syncTrace) : syncTrace[i].op = "x_delete"
  /\ \E i \in 1..Len(syncTrace) :
       syncTrace[i].op = "db_save" /\ syncTrace[i].ok

\* The run recorded in trace asked X to add a rule for market m.
AddAttempted(trace, m) ==
  \E j \in 1..Len(trace) : trace[j].op = "x_add" /\ trace[j].arg = m

\* The run recorded in trace asked the bookkeeping to delete rule id.
DeleteAttempted(trace, id) ==
  \E j \in 1..Len(trace) : trace[j].op = "db_delete" /\ trace[j].arg = id

\* C11: a sync run in which a deletion or an addition fails still goes on
\* with the rest: once X has deleted the stale rules the run asks the
\* bookkeeping to delete each of them, and it asks for a rule for every
\* active market with templates that had none.
C11_FailureIsNonFatal ==
  [][(/\ mstatus' = mstatus
      /\ \E i \in 1..Len(syncTrace') :
           syncTrace'[i].op \in DeleteOps \cup AddOps /\ ~syncTrace'[i].ok)
       => /\ \A id \in rulesToRemove :
               (\E j \in 1..Len(syncTrace') :
                  syncTrace'[j].op = "x_delete" /\ syncTrace'[j].ok)
                 => DeleteAttempted(syncTrace', id)
          /\ \A m \in marketsNeedingRules :
               templates[m] > 0 => AddAttempted(syncTrace', m)]_vars

\* The step is a sync run in which every operation succeeded.
CleanSyncRun ==
  /\ mstatus' = mstatus
  /\ syncTrace' # <<>>
  /\ \A i \in 1..Len(syncTrace') : syncTrace'[i].ok

\* C12: after a sync run that completes without error no rule of a market
\* that is not active is left at X, nor in the bookkeeping.
C12_NoRuleOfInactiveMarket ==
  [][CleanSyncRun
       => /\ \A x \in xRules' : x.tag \in activeMarketIds
          /\ \A r \in dbRules' : r.market_id \in activeMarketIds]_vars

\* Every rule the run recorded in trace asked X for was issued and saved.
AddsIssued(trace) ==
  \A m \in Markets :
    AddAttempted(trace, m)
      => \E j \in 1..Len(trace) : trace[j] = SyncOp("db_save", m, TRUE)

\* C13: a sync run all of whose calls succeed leaves every active market
\* with templates with exactly one rule at X, tagged with the market and
\* recorded in the bookkeeping, and leaves nothing to add or delete for a
\* run that follows with the markets unchanged.
C13_OneRulePerActiveMarket ==
  [][(CleanSyncRun /\ AddsIssued(syncTrace'))
       => /\ \A m \in activeMarketIds :
               templates[m] > 0 =>
                 /\ Cardinality({x \in xRules' : x.tag = m}) = 1
                 /\ \E r \in dbRules' :
                      /\ r.market_id = m
                      /\ [id |-> r.x_rule_id, tag |-> m] \in xRules'
          /\ \A m \in marketsNeedingRules' : templates[m] = 0
          /\ rulesToRemove' = {}]_vars

\* C29: every rule at X carries the id of a market as its tag, and the
\* market_id of every payload the worker posts to the ingest endpoint is the
\* id of a market.
C29_RuleTagIsMarketId ==
  /\ \A x \in xRules : x.tag \in Markets
  /\ lastPost # NoPost => lastPost.market_id \in Markets


\* C36: after any sequence of sync runs the rule ids of the bookkeeping are
\* exactly the ids of the rules registered at X, and no active market has
\* more than one rule registered.
C36_BookkeepingMatchesRules ==
  /\ {r.x_rule_id : r \in dbRules} = {x.id : x \in xRules}
  /\ \A m \in activeMarketIds : Cardinality({x \in xRules : x.tag = m}) <= 1

\* C37: the worker comes back to a connection attempt, after an attempt it
\* made, only from the backoff timer, and the timer it waited for was set to
\* at least reconnect_delay_ms, whether the connection failed or ended
\* without an error.
C37_DelayBeforeEveryReconnect ==
  [][(wpc # "connect" /\ wpc' = "connect")
       => (wpc = "backoff" /\ delay >= RECONNECT_DELAY_MS)]_vars

\* ------------------------------------------------------------------------
\* The store and the stages of a refresh
\* ------------------------------------------------------------------------

\* The tables a stage reads and writes, as one value.
Db ==
  [raw |-> rawPosts, last |-> lastIngested, scored |-> scoredPosts,
   state |-> marketState]

\* One operation of a handler on behalf of market m; the call of the
\* oracle names the posts it sends.
Ev(op, m) == [op |-> op, market |-> m, posts |-> {}]

OracleCall(m, posts) == [op |-> "oracle_call", market |-> m, posts |-> posts]

IngestOps == {"source_call", "raw_upsert"}

ScoreOps ==
  {"oracle_call", "oracle_unreachable", "oracle_invalid", "score_error",
   "scored_upsert"}

ComputeOps == {"engine_run", "state_write", "snapshot_write", "outcome_write"}

\* upsert into raw_posts with onConflict (x_post_id, market_id) and
\* ignoreDuplicates: a row is created only when the key holds none.
upsertRawPostNoConflict(db, p, m) ==
  [db EXCEPT !.raw[<<p, m>>] = @ + 1, !.last[m] = p]

upsertRawPost(db, p, m) ==
  IF db.raw[<<p, m>>] > 0 THEN db
  ELSE [db EXCEPT !.raw[<<p, m>>] = @ + 1, !.last[m] = p]

\* The upserts of the posts ps (in order) for market m.
RECURSIVE UpsertAll(_, _, _)
UpsertAll(db, ps, m) ==
  IF ps = <<>> THEN db
  ELSE UpsertAll(upsertRawPost(db, Head(ps), m), Tail(ps), m)

\* Number of raw rows of market m.
RECURSIVE RawCount(_, _, _)
RawCount(db, m, n) ==
  IF n = 0 THEN 0 ELSE db.raw[<<n, m>>] + RawCount(db, m, n - 1)

\* searchRecentTweets(query, max, since_id): the posts the source may
\* return, those newer than the watermark.
SourceBatches(since) ==
  SUBSET {p \in PostIds : since = Null \/ p > since}

\* The posts of a batch in the order the source returns them, which the
\* handlers keep: oldest first or newest first.
Returned(batch, newestFirst) ==
  IF newestFirst THEN Reversed(SortedSeq(batch)) ELSE SortedSeq(batch)

\* The call of the source for market m with the watermark since (none when
\* Null).
SourceCall(m, since) ==
  [op |-> "source_call", market |-> m,
   posts |-> IF since = Null THEN {} ELSE {since}]

\* The ingest stage of a tick for market m: one source call with the post
\* of the market ingested last as watermark, then one upsert per returned
\* post.  srcOk = FALSE is a throw of the source call, caught by the stage.
IngestStage(db, m, batch, newestFirst, srcOk) ==
  IF ~srcOk THEN [db |-> db, trace |-> <<SourceCall(m, db.last[m])>>]
  ELSE [db |-> UpsertAll(db, Returned(batch, newestFirst), m),
        trace |-> <<SourceCall(m, db.last[m])>>
                  \o [i \in 1..Cardinality(batch) |-> Ev("raw_upsert", m)]]

\* The raw posts of market m.
RawOf(db, m) == {p \in PostIds : db.raw[<<p, m>>] > 0}

UnscoredOrNot(db, m) == RawOf(db, m)

\* The raw posts of market m without a scored row.
Unscored(db, m) ==
  {p \in PostIds : db.raw[<<p, m>>] > 0 /\ <<p, m>> \notin db.scored}

\* What the oracle call can come to: every result passes the schema, the
\* oracle is not reached, or a result of the response fails the schema.
OracleReplies == {"ok", "oracle_unreachable", "oracle_invalid"}

\* The least post of a set.
FirstOf(posts) == CHOOSE p \in posts : \A q \in posts : p <= q

scorePostsKeepValid(posts, reply) ==
  IF reply = "oracle_unreachable" THEN [threw |-> TRUE, results |-> {}]
  ELSE IF reply = "oracle_invalid"
  THEN [threw |-> FALSE, results |-> posts \ {FirstOf(posts)}]
  ELSE [threw |-> FALSE, results |-> posts]

\* scorePostsForMarket: the call throws when the oracle is not reached and
\* when the response does not parse as a whole (here the result of the
\* least post is the one that fails); else it returns a result per post.
scorePostsForMarket(posts, reply) ==
  IF reply = "ok" THEN [threw |-> FALSE, results |-> posts]
  ELSE [threw |-> TRUE, results |-> {}]

\* The operations of a score stage whose oracle call came to reply: the
\* call, what came back when it failed, the throw, the write.
scoreOpsOf(m, posts, reply, r, wrote) ==
  <<OracleCall(m, posts)>>
  \o (IF reply = "ok" THEN <<>> ELSE <<Ev(reply, m)>>)
  \o (IF r.threw THEN <<Ev("score_error", m)>> ELSE <<>>)
  \o (IF wrote THEN <<Ev("scored_upsert", m)>> ELSE <<>>)

\* The posts go to the oracle and the rows it returns (one per post and
\* outcome) are upserted, over the rows the posts have; a throw of the
\* oracle call ends the stage.
ScorePosts(db, m, posts, reply) ==
  IF posts = {} THEN [db |-> db, trace |-> <<>>]
  ELSE LET r == scorePostsForMarket(posts, reply)
           wrote == ~r.threw /\ outcomes[m] > 0 /\ r.results # {}
       IN  [db |-> IF wrote
                   THEN [db EXCEPT !.scored =
                                     @ \cup {<<p, m>> : p \in r.results}]
                   ELSE db,
            trace |-> scoreOpsOf(m, posts, reply, r, wrote)]

\* The score stage for market m: the unscored posts are scored.
ScoreStage(db, m, reply) == ScorePosts(db, m, Unscored(db, m), reply)

\* Number of scored posts of market m.
ScoredCount(db, m) == Cardinality({p \in PostIds : <<p, m>> \in db.scored})

\* computeProbabilities(marketId) of the adapter: throws without outcomes,
\* else runs the engine on the scored posts and writes market_state, a
\* snapshot and the outcomes' current probabilities.  post_counts is the
\* engine's accepted_posts, taken here as the number of scored posts (the
\* engine accepting each of them).
ComputeStage(db, m) ==
  IF outcomes[m] = 0 THEN [db |-> db, trace |-> <<>>, threw |-> TRUE]
  ELSE [db |-> [db EXCEPT !.state[m] = ScoredCount(db, m)],
        trace |-> <<Ev("engine_run", m), Ev("state_write", m),
                    Ev("snapshot_write", m), Ev("outcome_write", m)>>,
        threw |-> FALSE]

\* The operations of a tick: those of the ingest stage, of the score stage
\* and of the compute stage, in this order.
tickOpsScoreFirst(ingest, score, compute) == score \o ingest \o compute

tickOps(ingest, score, compute) == ingest \o score \o compute

\* The three stages of a tick of market m from the tables db.  doIngest
\* and doScore say whether the stage is taken at all.
RunStagesFrom(db, m, i, doScore, reply) ==
  LET s == IF doScore THEN ScoreStage(i.db, m, reply)
           ELSE [db |-> i.db, trace |-> <<>>]
      c == ComputeStage(s.db, m)
  IN  [db |-> c.db, trace |-> tickOps(i.trace, s.trace, c.trace)]

RunStages(db, m, doIngest, batch, newestFirst, srcOk, doScore, reply) ==
  RunStagesFrom(db, m,
                IF doIngest
                THEN IngestStage(db, m, batch, newestFirst, srcOk)
                ELSE [db |-> db, trace |-> <<>>],
                doScore, reply)

\* The tables after a request.
StoreBecomes(db) ==
  /\ rawPosts' = db.raw
  /\ lastIngested' = db.last
  /\ scoredPosts' = db.scored
  /\ marketState' = db.state

\* Every post of the batch is already stored for market m.
OnlyStored(db, m, batch) == \A p \in batch : db.raw[<<p, m>>] > 0

\* The batch holds posts, each of them already stored for market m.
AllKnown(db, m, batch) == batch # {} /\ OnlyStored(db, m, batch)


\* ------------------------------------------------------------------------
\* The entry points of the pipeline
\* ------------------------------------------------------------------------

\* What can happen to the requests of a tick of market m: the batch the
\* source returns and its order (said only of a batch of several posts),
\* whether the source call succeeds and what the oracle call comes to (said
\* only when there is something to score).
StageChoices(m, doIngest, doScore) ==
  {c \in [batch : SourceBatches(lastIngested[m]), newestFirst : BOOLEAN,
          srcOk : BOOLEAN, reply : OracleReplies] :
     /\ c.newestFirst => Cardinality(c.batch) >= 2
     /\ ~c.srcOk => c.batch = {}
     /\ ~doIngest => (c.batch = {} /\ c.srcOk)
     /\ c.reply # "ok" =>
          /\ doScore
          /\ Unscored(UpsertAll(Db, SortedSeq(c.batch), m), m) # {}}

\* A request that is turned away before any stage.
Rejected(route, m, why, elapsed) ==
  /\ tick' = Tick(route, m, why, <<>>, FALSE, 0, elapsed)
  /\ UNCHANGED storeVars

\* A request that runs the stages for market m.
Ran(route, m, doIngest, doScore, c, elapsed) ==
  LET r == RunStages(Db, m, doIngest, c.batch, c.newestFirst, c.srcOk,
                       doScore, c.reply)
  IN  /\ StoreBecomes(r.db)
      /\ tick' = Tick(route, m, "", r.trace,
                      doIngest /\ c.srcOk /\ AllKnown(Db, m, c.batch),
                      RawCount(r.db, m, NPosts) - RawCount(Db, m, NPosts),
                      elapsed)

\* The least time between two refreshes of a market, in ms.
MIN_REFRESH_INTERVAL_MS == 30000

\* The time since updated_at when a public refresh arrives, in ms: the two
\* sides of the limit.
Elapsed == {MIN_REFRESH_INTERVAL_MS - 1, MIN_REFRESH_INTERVAL_MS}

rateLimitedWhateverTheCount(post_counts, elapsed) ==
  elapsed < MIN_REFRESH_INTERVAL_MS

\* The rate check: the state counts posts and is younger than the interval.
rateLimited(post_counts, elapsed) ==
  post_counts > 0 /\ elapsed < MIN_REFRESH_INTERVAL_MS

\* POST /api/markets/{id}/refresh.  The request is turned away for a market
\* that is not active, for one whose state counts posts and is younger than
\* MIN_REFRESH_INTERVAL_MS, and for one without outcomes; ingest is taken
\* when the market has templates.
PublicRefresh ==
  /\ \E m \in Requested, elapsed \in Elapsed :
       IF mstatus[m] # "active"
       THEN Rejected("public", m, "INACTIVE", elapsed)
       ELSE IF rateLimited(marketState[m], elapsed)
       THEN Rejected("public", m, "RATE_LIMITED", elapsed)
       ELSE IF outcomes[m] = 0
       THEN Rejected("public", m, "NO_OUTCOMES", elapsed)
       ELSE \E c \in StageChoices(m, templates[m] > 0, TRUE) :
              Ran("public", m, templates[m] > 0, TRUE, c, elapsed)
  /\ UNCHANGED <<marketVars, engineVars, workerVars, lifeVars,
                 tickSizes, flowVars>>

\* The cron run skips a market without templates or without outcomes.
CronSkips(m) == templates[m] = 0 \/ outcomes[m] = 0

\* What can happen to the requests of a cron run, market by market: a
\* sequence indexed by the markets 1..n.
RECURSIVE CronChoices(_)
CronChoices(n) ==
  IF n = 0 THEN {<<>>}
  ELSE {Append(f, c) :
          f \in CronChoices(n - 1),
          c \in IF mstatus[n] = "active" /\ ~CronSkips(n)
                THEN StageChoices(n, TRUE, TRUE)
                ELSE {[batch |-> {}, newestFirst |-> FALSE, srcOk |-> TRUE,
                       reply |-> "ok"]}}

\* The per-market loop of the cron run over the markets ms; acc holds the
\* tables and the record so far.
RECURSIVE CronLoop(_, _, _)
CronLoop(ms, ch, acc) ==
  IF ms = <<>> THEN acc
  ELSE
    LET m == Head(ms)
        r == RunStages(acc.db, m, TRUE, ch[m].batch, ch[m].newestFirst,
                       ch[m].srcOk, TRUE, ch[m].reply)
    IN  CronLoop(Tail(ms), ch,
          IF CronSkips(m) THEN acc
          ELSE [db |-> r.db,
                trace |-> acc.trace \o r.trace,
                got |-> acc.got \/ (ch[m].srcOk /\ ch[m].batch # {}),
                only |-> acc.only /\ OnlyStored(acc.db, m, ch[m].batch),
                created |-> acc.created + RawCount(r.db, m, NPosts)
                            - RawCount(acc.db, m, NPosts)])

\* GET /api/cron/refresh-markets: every active market in turn.
CronRefresh ==
  /\ \E ch \in CronChoices(NMarkets) :
       LET r == CronLoop(SortedSeq(activeMarketIds), ch,
                         [db |-> Db, trace |-> <<>>, got |-> FALSE,
                          only |-> TRUE, created |-> 0])
       IN  /\ StoreBecomes(r.db)
           /\ tick' = Tick("cron", 0, "", r.trace, r.got /\ r.only, r.created,
                           Null)
  /\ UNCHANGED <<marketVars, engineVars, workerVars, lifeVars,
                 tickSizes, flowVars>>

\* POST of the pipeline route, with its options skip_fetch and skip_score.
\* The request is turned away (it throws before the stages) for a market
\* that is not active, has no templates or has no outcomes.
PipelineRoute ==
  /\ \E m \in Requested :
       IF mstatus[m] # "active" THEN Rejected("pipeline", m, "INACTIVE", Null)
       ELSE IF templates[m] = 0
       THEN Rejected("pipeline", m, "NO_TEMPLATES", Null)
       ELSE IF outcomes[m] = 0
       THEN Rejected("pipeline", m, "NO_OUTCOMES", Null)
       ELSE \E skip_fetch \in BOOLEAN, skip_score \in BOOLEAN :
              \E c \in StageChoices(m, ~skip_fetch, ~skip_score) :
                Ran("pipeline", m, ~skip_fetch, ~skip_score, c, Null)
  /\ UNCHANGED <<marketVars, engineVars, workerVars, lifeVars,
                 tickSizes, flowVars>>

\* POST /api/internal/posts/ingest with the posts of the payload: one
\* upsert per post.  The requests it then sends to the score route and to
\* the update route are ScoreRoute and UpdateRoute.
PushIngest ==
  /\ \E m \in Requested, posts \in SUBSET PostIds \ {{}} :
       LET db == UpsertAll(Db, SortedSeq(posts), m)
       IN  /\ StoreBecomes(db)
           /\ tick' = Tick("push", m, "",
                           [i \in 1..Cardinality(posts) |->
                              Ev("raw_upsert", m)],
                           AllKnown(Db, m, posts),
                           RawCount(db, m, NPosts) - RawCount(Db, m, NPosts),
                           Null)
  /\ UNCHANGED <<marketVars, engineVars, workerVars, lifeVars,
                 tickSizes, flowVars>>

\* The posts the score route sends: the raw posts of the market among
\* post_ids when the request names some, the unscored posts otherwise.
ToScore(db, m, post_ids) ==
  IF post_ids # {} THEN RawOf(db, m) \cap post_ids ELSE Unscored(db, m)

\* POST /api/internal/posts/score for a market, with its option post_ids.
ScoreRoute ==
  /\ \E m \in Requested, post_ids \in SUBSET PostIds,
        reply \in OracleReplies :
       LET s == ScorePosts(Db, m, ToScore(Db, m, post_ids), reply)
       IN  /\ reply # "ok" => ToScore(Db, m, post_ids) # {}
           /\ StoreBecomes(s.db)
           /\ tick' = Tick(IF post_ids # {} THEN "score_posts" ELSE "score",
                           m, "", s.trace, FALSE, 0, Null)
  /\ UNCHANGED <<marketVars, engineVars, workerVars, lifeVars,
                 tickSizes, flowVars>>

\* A request that is computeProbabilities(id) and nothing else.
ComputeOnly(route) ==
  /\ \E m \in Requested :
       /\ StoreBecomes(ComputeStage(Db, m).db)
       /\ tick' = Tick(route, m,
                       IF ComputeStage(Db, m).threw THEN "NO_OUTCOMES"
                       ELSE "",
                       ComputeStage(Db, m).trace, FALSE, 0, Null)
  /\ UNCHANGED <<marketVars, engineVars, workerVars, lifeVars,
                 tickSizes, flowVars>>

\* POST /api/internal/markets/{id}/update.
UpdateRoute == ComputeOnly("update")

\* POST /api/internal/probability/compute in fetch mode.
ComputeRoute == ComputeOnly("compute")

\* Market 1 is active or not (closed: the handlers ask of a status only
\* whether it is "active"), with or without templates and outcomes; the
\* other markets are active, with templates and outcomes.
Init ==
  /\ mstatus \in {f \in [Markets -> {"active", "closed"}] :
                    \A m \in Markets : m > 1 => f[m] = "active"}
  /\ templates \in {f \in [Markets -> 0..1] :
                      \A m \in Markets : m > 1 => f[m] = 1}
  /\ outcomes \in {f \in [Markets -> {0, 2}] :
                     \A m \in Markets : m > 1 => f[m] = 2}
  /\ PipelineIdle
  /\ EngineIdle
  /\ WorkerIdle
  /\ LifeIdle
  /\ BatchIdle
  /\ FlowIdle

Next ==
  \/ PublicRefresh
  \/ CronRefresh
  \/ PipelineRoute
  \/ PushIngest
  \/ ScoreRoute
  \/ UpdateRoute
  \/ ComputeRoute

Spec == Init /\ [][Next]_vars

\* ------------------------------------------------------------------------
\* Properties of the pipeline
\* ------------------------------------------------------------------------

\* The entry points that run the stages of a refresh.
Orchestrators == {"public", "cron", "pipeline"}

\* The stage an operation belongs to: 1 ingest, 2 score, 3 compute.
StageOf(op) ==
  IF op \in IngestOps THEN 1 ELSE IF op \in ScoreOps THEN 2 ELSE 3

\* The request recorded in tick did operation op for market m.
Did(op, m) ==
  \E i \in 1..Len(tick.trace) :
    tick.trace[i].op = op /\ tick.trace[i].market = m

\* The markets a request is about: every market for the cron run, the
\* addressed market otherwise.
Concerned == IF tick.route = "cron" THEN Markets ELSE {tick.market}

\* C4: after any sequence of ingests (public refresh, cron, pipeline route,
\* push ingest) raw_posts holds at most one row per (x_post_id, market_id),
\* and a request whose ingest receives only posts already stored for the
\* market creates no raw row.
C4_OneRawRowPerKey ==
  /\ \A k \in PostIds \X Markets : rawPosts[k] <= 1
  /\ tick.known => tick.created = 0

\* A public refresh whose source call returned a post the market already
\* held, after which the table still holds one row for it.
C4_Witness ==
  /\ tick.route = "public"
  /\ tick.known
  /\ Did("raw_upsert", tick.market)
  /\ tick.created = 0
  /\ \E p \in PostIds : rawPosts[<<p, tick.market>>] = 1

\* C5: within one refresh of a market the stages run in the order ingest,
\* score, compute: no operation of a later stage for the market precedes
\* an operation of an earlier stage for it.
C5_StagesInOrder ==
  \A i, j \in 1..Len(tick.trace) :
    (i < j /\ tick.trace[i].market = tick.trace[j].market)
      => StageOf(tick.trace[i].op) <= StageOf(tick.trace[j].op)

\* A cron run in which both markets ingested a post, scored it and
\* computed.
C5_Witness ==
  /\ tick.route = "cron"
  /\ \A m \in 1..2 :
       /\ Did("source_call", m)
       /\ Did("raw_upsert", m)
       /\ Did("oracle_call", m)
       /\ Did("scored_upsert", m)
       /\ Did("engine_run", m)
       /\ Did("snapshot_write", m)

\* C6: in every orchestrator entry point the compute stage runs for an
\* active market with at least one outcome, whatever happens earlier (an
\* ingest failure, a score failure, an empty templates list); a public
\* refresh answered RATE_LIMITED is left aside.
C6_ComputeAlwaysRuns ==
  (tick.route \in Orchestrators /\ tick.rejected # "RATE_LIMITED")
    => \A m \in Concerned :
         (mstatus[m] = "active" /\ outcomes[m] > 0) => Did("engine_run", m)

\* C7: no entry point writes raw posts, scored rows or market state for a
\* market whose status is closed or resolved (a market keeps its status,
\* so a row of such a market was written while it had that status).
C7_OnlyActiveMarketsWritten ==
  \A m \in Markets :
    mstatus[m] # "active" =>
      /\ \A p \in PostIds : rawPosts[<<p, m>>] = 0
      /\ \A p \in PostIds : <<p, m>> \notin scoredPosts
      /\ marketState[m] = Null

\* A public refresh of a market whose state counts posts and was updated
\* less than the interval ago answers RATE_LIMITED without a call or a write.
TurnedAwayWhenRecent ==
  (marketState[tick'.market] > 0 /\ tick'.elapsed < MIN_REFRESH_INTERVAL_MS)
    => /\ tick'.rejected = "RATE_LIMITED"
       /\ tick'.trace = <<>>
       /\ UNCHANGED storeVars

\* A public refresh of a market whose state counts no post, or that has no
\* state yet, is not answered RATE_LIMITED.
NotLimitedWithoutPosts ==
  ~(marketState[tick'.market] > 0) => tick'.rejected # "RATE_LIMITED"

\* C16 as stated: every public refresh of a market whose state counts posts
\* and was updated less than 30 s ago answers RATE_LIMITED and makes no
\* source call, no oracle call and no write; a market whose state counts no
\* post is never rate limited.
C16_RateLimited ==
  [][tick'.route = "public"
       => TurnedAwayWhenRecent /\ NotLimitedWithoutPosts]_vars

\* C16 amended: the same for every public refresh of an active market (a
\* market that is not active is answered INACTIVE before the rate check).
C16_RateLimitedWhenActive ==
  [][(tick'.route = "public" /\ mstatus[tick'.market] = "active")
       => TurnedAwayWhenRecent /\ NotLimitedWithoutPosts]_vars

\* C16 witness: a public refresh of an active market was answered
\* RATE_LIMITED one millisecond before the interval ended.
C16_Witness ==
  /\ tick.route = "public"
  /\ tick.rejected = "RATE_LIMITED"
  /\ mstatus[tick.market] = "active"
  /\ marketState[tick.market] > 0
  /\ tick.elapsed = MIN_REFRESH_INTERVAL_MS - 1
  /\ tick.trace = <<>>

\* The posts of market m that have scored rows in the table scored.
ScoredOf(scored, m) == {p \in PostIds : <<p, m>> \in scored}

\* The request that ends in tick' made an oracle call for market m that
\* failed: the oracle was not reached or a result did not pass the schema.
OracleFailed(m) ==
  \E i \in 1..Len(tick'.trace) :
    tick'.trace[i] \in {Ev("oracle_unreachable", m), Ev("oracle_invalid", m)}

\* C18: a score stage whose oracle call is not answered, or is answered
\* with a result that fails the schema, writes no scored row (the scored
\* rows of the market are those of before) and ends in an error.
C18_FailedBatchWritesNothing ==
  [][\A m \in Markets :
       OracleFailed(m)
         => /\ ScoredOf(scoredPosts', m) = ScoredOf(scoredPosts, m)
            /\ \E i \in 1..Len(tick'.trace) :
                 tick'.trace[i] = Ev("score_error", m)
            /\ \A i \in 1..Len(tick'.trace) :
                 tick'.trace[i] # Ev("scored_upsert", m)]_vars

\* C18 witness: a request sent two posts of a market to the oracle, one
\* result failed the schema, and the two posts are still without scores.
C18_Witness ==
  /\ Did("oracle_invalid", tick.market)
  /\ Did("score_error", tick.market)
  /\ Cardinality(Unscored(Db, tick.market)) = 2

\* The request that ends in tick' sent post p of market m to the oracle.
SentToOracle(p, m) ==
  \E i \in 1..Len(tick'.trace) :
    /\ tick'.trace[i].op = "oracle_call"
    /\ tick'.trace[i].market = m
    /\ p \in tick'.trace[i].posts

NewestOf(posts) ==
  IF posts = {} THEN Null
  ELSE CHOOSE p \in posts : \A q \in posts : q <= p

\* C25: the watermark a request passes to the source for market m is the
\* newest post of the raw posts the market had before the request, and none
\* when it had no raw post.
C25_WatermarkIsNewestOfMarket ==
  [][\A i \in 1..Len(tick'.trace) :
       tick'.trace[i].op = "source_call"
         => tick'.trace[i]
              = SourceCall(tick'.trace[i].market,
                           NewestOf(RawOf(Db, tick'.trace[i].market)))]_vars

\* The count a request reports as ingested (tweets_ingested of the public
\* refresh and of the pipeline route, accepted of the push ingest, the sum
\* of marketTweets of the cron run): it is incremented after every upsert
\* into raw_posts that returns no error.
Accepted(t) ==
  Cardinality({i \in 1..Len(t.trace) : t.trace[i].op = "raw_upsert"})

\* C26: the count a request reports as ingested is the number of raw rows
\* the request created.
C26_ReportedCountIsRowsCreated == Accepted(tick) = tick.created

\* The status of the response of the public refresh recorded in t: the
\* response of a request that ran the stages says "success" (the catch
\* blocks of the ingest and score stages only log), that of a request turned
\* away carries an error.
refreshStatus(t) == IF t.rejected # "" THEN "error" ELSE "success"

\* The errors the response of the public refresh lists: its results object
\* has no errors list.
refreshErrors(t) == <<>>

\* C28: a public refresh whose score stage failed lists the failure in the
\* errors of its response, and the status of the response is not success.
C28_StageFailureReported ==
  (tick.route = "public" /\ Did("score_error", tick.market))
    => /\ refreshErrors(tick) # <<>>
       /\ refreshStatus(tick) # "success"

\* ------------------------------------------------------------------------
\* One market from its creation on: the ask route and the adapter's compute
\* ------------------------------------------------------------------------

\* Bounds of the life of the market.
MaxSnapshots == 3

MaxClock == 5

\* What the web server's clock can be ahead of the database clock, in ms.
ClockSkews == {-2, 0, 2}

\* The priors of the two outcomes of a new market: those of createMockMarket
\* and priors of the oracle, each of which the schema bounds to [0, 1] and
\* nothing more.
AskPriors ==
  {<<500000, 500000>>, <<600000, 400000>>, <<700000, 700000>>, <<ONE, 0>>}

\* The posts with scores of the market at a compute.
MarketPosts == {<<>>, <<Supportive(2, 60, 1)>>, <<Against(2)>>}

Snapshot(probabilities, timestamp) ==
  [probabilities |-> probabilities, timestamp |-> timestamp]

\* The time as the web server reads it (new Date()).
ServerNow == clock + clockSkew

\* The ask route for a question with no similar market: the outcomes carry
\* the priors as prior_probability and current_probability, market_state
\* the priors as probabilities with post_counts 0, and the first snapshot
\* takes the column's default now(), the time of the database.
askMarket(priors, dbNow) ==
  [created |-> TRUE, prior |-> priors, current |-> priors,
   probabilities |-> priors, num |-> priors, den |-> ONE, post_counts |-> 0,
   updated_at |-> dbNow, snapshots |-> <<Snapshot(priors, dbNow)>>,
   rejections |-> 0]

\* The writes of a compute the store rejects: the upsert of market_state,
\* the insert of the snapshot, the updates of the outcomes. At most one
\* write of a compute is rejected.
NoneRejected == [state |-> FALSE, snapshot |-> FALSE, outcomes |-> {}]

RejectedWrites ==
  {NoneRejected,
   [NoneRejected EXCEPT !.state = TRUE],
   [NoneRejected EXCEPT !.snapshot = TRUE],
   [NoneRejected EXCEPT !.outcomes = {1}],
   [NoneRejected EXCEPT !.outcomes = {2}]}

\* The computes with a rejected write that are looked at.
MaxRejections == 1

\* The adapter's computeProbabilities: the engine on the priors of the
\* outcomes, the probabilities of market_state and the posts; market_state,
\* a new snapshot and the outcomes take the result, the two timestamps are
\* the web server's. A write the store rejects is logged, or not looked
\* at, and the next write is made.
persistResult(market, r, serverNow, rejected) ==
  LET stateWritten ==
        IF rejected.state THEN market
        ELSE [market EXCEPT !.probabilities = r.probabilities,
                            !.num = r.num,
                            !.den = r.den,
                            !.post_counts = r.notes.accepted_posts,
                            !.updated_at = serverNow]
      snapshotWritten ==
        IF rejected.snapshot THEN stateWritten
        ELSE [stateWritten EXCEPT
                !.snapshots = Append(@, Snapshot(r.probabilities, serverNow))]
  IN  [snapshotWritten EXCEPT
         !.current = [i \in 1..Len(market.current) |->
                        IF i \in rejected.outcomes THEN market.current[i]
                        ELSE r.probabilities[i]],
         !.rejections = IF rejected = NoneRejected THEN @ ELSE @ + 1]

adapterComputeRejecting(market, posts, serverNow, rejected) ==
  persistResult(market,
                computeProbabilitiesV1([K |-> Len(market.prior),
                                        prior |-> market.prior,
                                        prev |-> market.probabilities,
                                        now |-> NOW, posts |-> posts]),
                serverNow, rejected)

\* The compute all of whose writes the store takes.
adapterCompute(market, posts, serverNow) ==
  adapterComputeRejecting(market, posts, serverNow, NoneRejected)

InitMarket ==
  /\ clock = 0
  /\ clockSkew \in ClockSkews
  /\ mkt = NoMarket
  /\ rawRows = NoRows
  /\ EngineIdle
  /\ MarketsIdle
  /\ WorkerIdle
  /\ PipelineIdle
  /\ BatchIdle
  /\ FlowIdle

\* Every request takes at least a millisecond.
AskMarket ==
  /\ ~mkt.created
  /\ clock < MaxClock
  /\ \E priors \in AskPriors : mkt' = askMarket(priors, clock)
  /\ clock' = clock + 1
  /\ UNCHANGED <<clockSkew, rawRows, engineVars, marketVars, workerVars, pipelineVars,
                 tickSizes, flowVars>>

ComputeMarket ==
  /\ mkt.created
  /\ Len(mkt.snapshots) < MaxSnapshots
  /\ clock < MaxClock
  /\ \E posts \in MarketPosts, rejected \in RejectedWrites :
       /\ rejected # NoneRejected => mkt.rejections < MaxRejections
       /\ mkt' = adapterComputeRejecting(mkt, posts, ServerNow, rejected)
  /\ clock' = clock + 1
  /\ UNCHANGED <<clockSkew, rawRows, engineVars, marketVars, workerVars, pipelineVars,
                 tickSizes, flowVars>>

TimePasses ==
  /\ clock < MaxClock
  /\ clock' = clock + 1
  /\ UNCHANGED <<clockSkew, mkt, rawRows, engineVars, marketVars, workerVars,
                 pipelineVars, tickSizes, flowVars>>

NextMarket == AskMarket \/ ComputeMarket \/ TimePasses

SpecMarket == InitMarket /\ [][NextMarket]_vars

\* ------------------------------------------------------------------------
\* Properties of the market
\* ------------------------------------------------------------------------

\* C14: the timestamps of the snapshots of the market are strictly
\* increasing in the order the snapshots were appended.
C14_SnapshotTimestampsIncrease ==
  \A i \in 1..Len(mkt.snapshots) : \A j \in 1..Len(mkt.snapshots) :
    i < j => mkt.snapshots[i].timestamp < mkt.snapshots[j].timestamp

\* C15: from the creation of the market on, the stored probabilities of
\* its outcomes sum to 1 within 1e-9 and each is at least
\* max(0.001, 0.01 / K).
C15_StoredProbabilitiesNormalised ==
  mkt.created =>
    /\ SumWithinTolerance(mkt.num, mkt.den)
    /\ \A i \in 1..Len(mkt.num) :
         FracAtLeast(mkt.num[i], mkt.den, FloorOf(Len(mkt.num)))

\* The market after compute stages run in a row, n times, on the same posts
\* at the same time.
RECURSIVE ComputedTimes(_, _, _, _)
ComputedTimes(market, posts, serverNow, n) ==
  IF n = 0 THEN market
  ELSE adapterCompute(ComputedTimes(market, posts, serverNow, n - 1), posts,
                      serverNow)

\* C32: a second compute stage in a row, on the same scored posts and at
\* the same time, leaves the probabilities of market_state as the first
\* left them.
C32_RecomputeChangesNothing ==
  mkt.created =>
    \A posts \in MarketPosts :
      SameProbabilities(
        ComputedTimes(mkt, posts, ServerNow, 2).probabilities,
        ComputedTimes(mkt, posts, ServerNow, 1).probabilities)

\* C35: the probabilities of market_state are those of the snapshot written
\* last, and the current_probability of every outcome is its entry in
\* market_state, after every compute.
C35_StoredCopiesAgree ==
  mkt.created =>
    /\ mkt.probabilities = mkt.snapshots[Len(mkt.snapshots)].probabilities
    /\ mkt.current = mkt.probabilities

\* ------------------------------------------------------------------------
\* The sizes of a tick, entry point by entry point
\* ------------------------------------------------------------------------

\* The most raw posts without scores a market has.
MaxUnscored == 18

\* max_tweets and batch_size as the pipeline route accepts them, and
\* batch_size as the score route accepts it (any number).
MaxTweetsOptions == {t \in {9, 10, 25, 26, 100, 101} : 10 <= t /\ t <= 100}

BatchSizeOptions == {b \in {0, 1, 10, 16, 17, 20, 21} : 1 <= b /\ b <= 20}

ScoreBatchSizes == {1, 16, 17}

\* searchRecentTweets asks the source for min(100, max(10, maxResults)).
maxResultsParam(maxResults) == MinOf(100, MaxOf(10, maxResults))

\* The posts a selection with .limit(n) over the unscored raw posts sends.
limitOf(n, unscored) == MinOf(n, unscored)

InitBatch ==
  /\ tickSizes = NoBatch
  /\ EngineIdle
  /\ MarketsIdle
  /\ WorkerIdle
  /\ PipelineIdle
  /\ LifeIdle
  /\ FlowIdle

BatchDone(b) ==
  /\ tickSizes' = b
  /\ UNCHANGED <<engineVars, marketVars, workerVars, pipelineVars, lifeVars,
                 flowVars>>

\* The public refresh: 20 posts asked, at most 10 scored.
PublicSizes ==
  \E u \in 0..MaxUnscored :
    BatchDone(Sizes("public", maxResultsParam(20), u, limitOf(10, u)))

\* The cron run, per market: 15 posts asked, at most 8 scored.
CronSizes ==
  \E u \in 0..MaxUnscored :
    BatchDone(Sizes("cron", maxResultsParam(15), u, limitOf(8, u)))

\* The pipeline route with its options max_tweets and batch_size.
PipelineSizes ==
  \E u \in 0..MaxUnscored, max_tweets \in MaxTweetsOptions,
     batch_size \in BatchSizeOptions :
    BatchDone(Sizes("pipeline", maxResultsParam(max_tweets), u,
                    limitOf(batch_size, u)))

\* The score route with its option batch_size; the source is not called.
ScoreSizes ==
  \E u \in 0..MaxUnscored, batch_size \in ScoreBatchSizes :
    BatchDone(Sizes("score", 0, u, limitOf(batch_size, u)))

\* The push ingest route calls the score route with batch_size 16.
PushSizes ==
  \E u \in 0..MaxUnscored :
    BatchDone(Sizes("push", 0, u, limitOf(16, u)))

\* The most active markets there are when a cron run starts.
MaxActive == 11

\* The sizes of a cron run as a whole: the number of active markets and the
\* number of them the run takes.
RunSizes(active, selected) ==
  [route |-> "cron_run", max_results |-> 0, unscored |-> 0, sent |-> 0,
   active |-> active, selected |-> selected]

\* The cron run selects the markets with status = 'active', newest first,
\* with .limit(10), and its loop takes the selected markets one by one.
CronMarkets ==
  \E a \in 0..MaxActive : BatchDone(RunSizes(a, limitOf(10, a)))

NextBatch ==
  \/ PublicSizes
  \/ CronSizes
  \/ PipelineSizes
  \/ ScoreSizes
  \/ PushSizes
  \/ CronMarkets

SpecBatch == InitBatch /\ [][NextBatch]_vars

\* C17: in every tick at most 25 posts are asked of the post source and at
\* most 16 posts are sent to the oracle, whatever the entry point and its
\* options.
C17_BatchSizesBounded ==
  /\ tickSizes.max_results <= 25
  /\ tickSizes.sent <= 16

\* C27: a cron run takes every active market (and each once: the selected
\* rows are distinct markets, each taken by one turn of the loop).
C27_EveryActiveMarketProcessed ==
  tickSizes.route = "cron_run" => tickSizes.selected = tickSizes.active

\* ------------------------------------------------------------------------
\* The ingest route and what the raw rows hold
\* ------------------------------------------------------------------------

\* The samples of a post's metrics (the counts grow while the post is read)
\* and the most posts of a payload.
MaxSamples == 2

MaxPayload == 2

Samples == 1..MaxSamples

\* The payloads of the ingest route: up to MaxPayload posts, each with the
\* metrics it has when it is sent.
Payloads ==
  UNION {[1..n -> [x_post_id : PostIds, metrics : Samples]] :
           n \in 1..MaxPayload}

upsertMerging(rows, post, m) ==
  [rows EXCEPT ![<<post.x_post_id, m>>] = post.metrics]

\* upsert(row, {onConflict: "x_post_id,market_id", ignoreDuplicates: true}):
\* the row is inserted when the key holds none, and nothing is done else.
upsertIgnoring(rows, post, m) ==
  IF rows[<<post.x_post_id, m>>] # Null THEN rows
  ELSE [rows EXCEPT ![<<post.x_post_id, m>>] = post.metrics]

\* The loop of the ingest route over the posts of the payload.
RECURSIVE ingestLoop(_, _, _)
ingestLoop(rows, posts, m) ==
  IF posts = <<>> THEN rows
  ELSE ingestLoop(upsertIgnoring(rows, Head(posts), m), Tail(posts), m)

InitIngest ==
  /\ rawRows = NoRows
  /\ clock = 0
  /\ clockSkew = 0
  /\ mkt = NoMarket
  /\ EngineIdle
  /\ MarketsIdle
  /\ WorkerIdle
  /\ PipelineIdle
  /\ BatchIdle
  /\ FlowIdle

\* POST /api/internal/posts/ingest: one upsert per post of the payload.
\* (The requests it then sends to the score route and to the update route
\* write no raw row.)
IngestPosts ==
  /\ \E m \in Markets, posts \in Payloads :
       rawRows' = [rows |-> ingestLoop(rawRows.rows, posts, m),
                   market_id |-> m, posts |-> posts]
  /\ UNCHANGED <<clock, clockSkew, mkt, engineVars, marketVars, workerVars,
                 pipelineVars, tickSizes, flowVars>>

NextIngest == IngestPosts

SpecIngest == InitIngest /\ [][NextIngest]_vars

\* C30: a request to the ingest route leaves every raw row there is as it
\* is: a post whose (x_post_id, market_id) has a row keeps the metrics of
\* its first ingest.
C30_ReingestLeavesRowUnchanged ==
  [][\A k \in PostIds \X Markets :
       rawRows.rows[k] # Null => rawRows'.rows[k] = rawRows.rows[k]]_vars

\* C30 witness: the last payload carried one post, which has a row, with
\* other metrics than the row holds.
C30_Witness ==
  /\ Len(rawRows.posts) = 1
  /\ LET post == rawRows.posts[1]
         held == rawRows.rows[<<post.x_post_id, rawRows.market_id>>]
     IN  held # Null /\ held # post.metrics


\* ------------------------------------------------------------------------
\* The chains of the ingest route: each request that accepted a post sends,
\* without waiting, a request to the score route and, when that answered
\* ok, one to the update route. The requests of one market, with the rows
\* of the market they read and write between their awaits.
\* ------------------------------------------------------------------------

MaxChains == 2

MaxChainPosts == 2

Chains == 1..MaxChains

ChainPosts == 1..MaxChainPosts

\* Where a request to the ingest route and its chain are: "idle" not yet
\* sent, "score" the score route was requested, "oracle" it waits for
\* the oracle, "update" the update route was requested, "compute" it has
\* read market_state and not yet written it, "done".
InitChains ==
  /\ chains = [raw |-> {}, scored |-> {}, version |-> 0, stale |-> FALSE,
               pc |-> [c \in Chains |-> "idle"],
               batch |-> [c \in Chains |-> {}],
               sent |-> [c \in Chains |-> {}],
               prev |-> [c \in Chains |-> Null]]
  /\ BacklogIdle
  /\ ScoringIdle
  /\ EngineIdle
  /\ MarketsIdle
  /\ WorkerIdle
  /\ PipelineIdle
  /\ BatchIdle
  /\ LifeIdle

ChainStep(c, to, changes) ==
  /\ chains' = [changes EXCEPT !.pc[c] = to]
  /\ UNCHANGED <<engineVars, marketVars, workerVars, pipelineVars, lifeVars,
                 tickSizes, backlog, scoring>>

\* POST /api/internal/posts/ingest: the posts of the payload are upserted
\* and, when one was accepted, the score route is requested.
ChainIngest(c) ==
  /\ chains.pc[c] = "idle"
  /\ \E posts \in SUBSET ChainPosts :
       ChainStep(c, IF posts # {} THEN "score" ELSE "done",
                 [chains EXCEPT !.raw = @ \cup posts])

\* The score route selects the raw posts of the market without scores, at
\* most batch_size = 16 of them, and sends them to the oracle.
ChainScoreSelect(c) ==
  /\ chains.pc[c] = "score"
  /\ LET posts == chains.raw \ chains.scored
     IN  IF posts = {}
         THEN ChainStep(c, "update", chains)
         ELSE ChainStep(c, "oracle",
                        [chains EXCEPT !.batch[c] = posts,
                                       !.sent[c] = @ \cup posts])

\* The oracle answers and the score route stores the rows, or the oracle
\* fails, the route answers 400 and the chain ends.
ChainScoreStore(c) ==
  /\ chains.pc[c] = "oracle"
  /\ \E ok \in BOOLEAN :
       IF ok
       THEN ChainStep(c, "update",
                      [chains EXCEPT !.scored = @ \cup chains.batch[c]])
       ELSE ChainStep(c, "done", chains)

\* The update route: computeProbabilities reads market_state.
ChainUpdateRead(c) ==
  /\ chains.pc[c] = "update"
  /\ ChainStep(c, "compute", [chains EXCEPT !.prev[c] = chains.version])

\* computeProbabilities writes the market_state it computed from what it
\* read.
ChainUpdateWrite(c) ==
  /\ chains.pc[c] = "compute"
  /\ ChainStep(c, "done",
               [chains EXCEPT !.version = @ + 1,
                              !.stale = @ \/ chains.prev[c] # chains.version])

NextChains ==
  \E c \in Chains :
    \/ ChainIngest(c)
    \/ ChainScoreSelect(c)
    \/ ChainScoreStore(c)
    \/ ChainUpdateRead(c)
    \/ ChainUpdateWrite(c)

SpecChains == InitChains /\ [][NextChains]_vars

InProgress(c) == chains.pc[c] \in {"score", "oracle", "update", "compute"}

\* C33: at most one score-then-update chain of the market is in progress,
\* no post is sent to the oracle by two chains, and no market_state is
\* written that was computed from a state no longer the stored one.
C33_ChainsDoNotOverlap ==
  /\ Cardinality({c \in Chains : InProgress(c)}) <= 1
  /\ \A c, d \in Chains : c # d => chains.sent[c] \cap chains.sent[d] = {}
  /\ ~chains.stale


\* ------------------------------------------------------------------------
\* The score stage over many ticks of one market: the raw posts of the
\* market in the order of ingested_at (a larger number was ingested later),
\* among them the posts for which the oracle returns no scored entry.
\* ------------------------------------------------------------------------

MaxBacklog == 11

BacklogPosts == 1..MaxBacklog

\* .limit(10) of the public refresh and .limit(8) of the cron run.
REFRESH_SCORE_LIMIT == 10

CRON_SCORE_LIMIT == 8

\* The n largest members of a set of numbers.
Newest(posts, n) ==
  {p \in posts : Cardinality({q \in posts : q > p}) < n}

\* The posts the score stage selects: those without a scored row, newest
\* first, at most limit of them.
postsToScore(b, limit) == Newest(b.raw \ b.scored, limit)

\* The score stage: the selection is sent to the oracle and a row is stored
\* for each post the oracle returned an entry for.
scoreStage(b, limit) ==
  LET batch == postsToScore(b, limit)
  IN  [b EXCEPT !.sent = @ \cup batch,
                !.scored = @ \cup (batch \ b.never)]

InitBacklog ==
  /\ backlog = [raw |-> {}, never |-> {}, scored |-> {}, sent |-> {}]
  /\ ChainsIdle
  /\ ScoringIdle
  /\ EngineIdle
  /\ MarketsIdle
  /\ WorkerIdle
  /\ PipelineIdle
  /\ BatchIdle
  /\ LifeIdle

BacklogStep(b) ==
  /\ backlog' = b
  /\ UNCHANGED <<engineVars, marketVars, workerVars, pipelineVars, lifeVars,
                 tickSizes, chains, scoring>>

\* A post is ingested for the market, one the oracle returns scores for
\* or one it never returns an entry for.
BacklogIngest ==
  /\ Cardinality(backlog.raw) < MaxBacklog
  /\ LET post == Cardinality(backlog.raw) + 1
     IN  \E scorable \in BOOLEAN :
           BacklogStep([backlog EXCEPT
                          !.raw = @ \cup {post},
                          !.never = IF scorable THEN @ ELSE @ \cup {post}])

\* The score stage of a public refresh of the market.
RefreshTick ==
  /\ backlog.raw # {}
  /\ BacklogStep(scoreStage(backlog, REFRESH_SCORE_LIMIT))

\* The score stage of a cron run over the market.
CronTick ==
  /\ backlog.raw # {}
  /\ BacklogStep(scoreStage(backlog, CRON_SCORE_LIMIT))

NextBacklog == BacklogIngest \/ RefreshTick \/ CronTick

\* Ticks keep coming: a tick that would change something is eventually
\* taken.
SpecBacklog ==
  InitBacklog /\ [][NextBacklog]_vars /\ WF_backlog(RefreshTick \/ CronTick)

\* C34: under repeated ticks, once no more post is ingested, every post
\* other than those the oracle never scores is eventually sent to the
\* oracle.
C34_OtherPostsEventuallySent ==
  <>[](backlog.raw \ backlog.never \subseteq backlog.sent)


\* ------------------------------------------------------------------------
\* The rows of scored_posts: what the score stage stores of the response of
\* the oracle.
\* ------------------------------------------------------------------------

MaxScorePosts == 2

\* The raw posts: post p is a raw post of market RawMarket(p).
ScorePostIds == 1..MaxScorePosts

RawMarket(p) == ((p - 1) % NMarkets) + 1

\* The outcome ids of every market, and the keys per_outcome can have:
\* z.record(z.string(), ...) takes any key.
OutcomeIds == 1..2

OracleKeys == 1..3

\* The responses that pass grokScoreBatchResponseSchema: per post id the
\* keys of per_outcome of its result ({} without a result), and whether
\* there is a result whose post_id is the id of no raw post.
ScoreResponses == [keys : [ScorePostIds -> SUBSET OracleKeys], stray : BOOLEAN]

\* The posts the score stage sends: the raw posts of the market without a
\* scored row of the market.
scoringBatch(rows, m) ==
  {p \in ScorePostIds :
     RawMarket(p) = m /\ \A r \in rows : ~(r.raw_post_id = p /\ r.market_id = m)}

\* insertRows: one row per result and key of its per_outcome, under the
\* market of the request.
insertRows(response, m) ==
  {r \in [raw_post_id : ScorePostIds, market_id : {m},
          outcome_id : OracleKeys] :
     r.outcome_id \in response.keys[r.raw_post_id]}

\* The upsert into scored_posts: the foreign key of raw_post_id rejects
\* the statement when a row names no raw post; nothing else is checked.
upsertScored(rows, response, m) ==
  IF response.stray THEN rows ELSE rows \cup insertRows(response, m)

InitScoring ==
  /\ scoring = [rows |-> {}, market_id |-> Null, batch |-> {}]
  /\ ChainsIdle
  /\ BacklogIdle
  /\ EngineIdle
  /\ MarketsIdle
  /\ WorkerIdle
  /\ PipelineIdle
  /\ BatchIdle
  /\ LifeIdle

\* The score stage of a tick of market m (and the score route without
\* post_ids): with posts to score, the oracle is asked and the rows of its
\* response are stored.
ScoreBatch ==
  /\ \E m \in Markets, response \in ScoreResponses :
       /\ scoringBatch(scoring.rows, m) # {}
       /\ scoring' = [rows |-> upsertScored(scoring.rows, response, m),
                      market_id |-> m,
                      batch |-> scoringBatch(scoring.rows, m)]
  /\ UNCHANGED <<engineVars, marketVars, workerVars, pipelineVars, lifeVars,
                 tickSizes, chains, backlog>>

NextScoring == ScoreBatch

SpecScoring == InitScoring /\ [][NextScoring]_vars

\* C38: every row a scoring batch writes names a post that was sent to the
\* oracle in that batch, a raw post of the market of the row, and an
\* outcome of the market.
C38_RowsOfTheBatchOnly ==
  [][\A r \in scoring'.rows \ scoring.rows :
       /\ r.raw_post_id \in scoring'.batch
       /\ RawMarket(r.raw_post_id) = r.market_id
       /\ r.outcome_id \in OutcomeIds]_vars

\* The keys of the scores map transformToPostInput builds for a post from
\* its rows of scored_posts: one entry per row, none made up.
scoredOutcomes(rows, p) == {r.outcome_id : r \in {q \in rows : q.raw_post_id = p}}

\* The evidence deltas of post j of the input in the loop of the engine.
DeltasOf(in, j) ==
  LET p == in.posts[j]
  IN  computeEvidenceDeltas(p, computeMetricWeight(p),
        authorDilution(AuthorCountOrOne(
          AuthorCount(in.now, in.posts, p.author_id))),
        timeDecay(AgeSec(in.now, p)), computeSpamPenalty(p), in.K)

\* The input with an entry of relevance 0 and stance 0 in place of every
\* missing entry of the scores of its posts.
ZeroFilled(in) ==
  [in EXCEPT !.posts =
     [j \in DOMAIN in.posts |->
        [in.posts[j] EXCEPT !.scores =
           [k \in 1..in.K |->
              IF k \in DOMAIN in.posts[j].scores THEN in.posts[j].scores[k]
              ELSE Score(0, 0, 0, 0, Null)]]]]

\* C39: a post adds 0 to the evidence of an outcome it has no score entry
\* for, its signals are those of the post with an entry of relevance 0 and
\* stance 0 there, and the rows stored for a post, and the scores built
\* from them, have the keys the oracle returned and no other.
C39_MissingScoreIsZero ==
  /\ EngineDone =>
       /\ \A j \in 1..Len(input.posts) : \A k \in 1..input.K :
            k \notin DOMAIN input.posts[j].scores => DeltasOf(input, j)[k] = 0
       /\ \A j \in 1..Len(input.posts) :
            SignalsOf(input, j) = SignalsOf(ZeroFilled(input), j)
  /\ \A response \in ScoreResponses, m \in Markets, p \in ScorePostIds :
       scoredOutcomes(insertRows(response, m), p) = response.keys[p]

C39_Witness ==
  /\ EngineDone
  /\ input.K = 2
  /\ input.posts = <<Against(2)>>
  /\ 2 \notin DOMAIN input.posts[1].scores
  /\ result.notes.accepted_posts = 1

====
